---- MODULE Spec2Model ----
(***************************************************************************)
(* Model of the Intelligent Fallback Orchestrator of                       *)
(* src/intelligent_fallback_generator.py: HealthMetrics, FailureDetector,  *)
(* PerformanceMonitor, SwitchingEngine and                                 *)
(* IntelligentFallbackGenerator.generate_code_with_fallback; of the two     *)
(* log classifiers (utils/log_analyzer.py and                              *)
(* FailureDetector.analyze_log_output); and of generate_code of the        *)
(* single-backend generators (autonomous_code_generator.py,                *)
(* unified_autonomous_generator.py, opencode_autonomous_generator.py),     *)
(* with their parse_task_description; of                                   *)
(* utils/api_checker.py wait_for_api_recovery; and of the two command-line *)
(* front ends.                                                             *)
(*                                                                         *)
(* Specifications: Spec (the orchestrator), SpecMon (update_metrics),      *)
(* SpecDet (health_score, should_trigger_switch), SpecEng                  *)
(* (should_switch_framework), SpecHist (record_switch), SpecLog (the       *)
(* classifiers), SpecGen (the generators), SpecWait                        *)
(* (wait_for_api_recovery), SpecParse (parse_task_description), SpecCli    *)
(* (the mains).  They share the variables; each leaves the variables of    *)
(* the others at their initial values.                                     *)
(*                                                                         *)
(* Conventions.                                                            *)
(*  - Optional[T] is a sequence: <<>> is None, <<v>> is the value v.       *)
(*  - Time is in whole seconds; datetime.now() and time.time() read the    *)
(*    one clock `now`, which never runs backwards.                         *)
(*  - success_rate is the exact fraction num/den; health_score is the      *)
(*    exact fraction health_num/health_den.  The code computes both in     *)
(*    binary floating point, which can differ from the exact value only    *)
(*    when the exact score equals a threshold (0.3, 0.5).                  *)
(*  - A formatted reason such as "Error rate too high (0.33)" is the       *)
(*    record [text |-> "Error rate too high", arg |-> 33]: the fixed text  *)
(*    and the value printed with two decimals, in hundredths.              *)
(***************************************************************************)
EXTENDS Integers, Sequences, FiniteSets, TLC

VARIABLES
    sdk_available,      \* frameworks whose SDK import succeeded (module constants)
    primary,            \* config_manager.get_primary_framework()
    generators,         \* self.generators: names of the constructed adapters
    current_framework,  \* self.current_framework
    metrics_history,    \* performance_monitor.metrics_history
    switching_history,  \* switching_engine.switching_history
    now,                \* the clock
    pc,                 \* position of the running call
    framework,          \* local `framework` of the running call
    frameworks_tried,   \* local `frameworks_tried` of the running call
    attempt,            \* loop index of `for attempt in range(2)`
    result,             \* Optional: the tuple the call returned
    calls,              \* number of calls started
    exec_log,           \* history variable: what each attempt of the running call did;
                        \* in SpecHist, every event given to record_switch; in SpecWait,
                        \* every probe result; in SpecGen, the session created and the
                        \* session deleted by every generate_code call
    attempts_log,       \* history variable: per framework, success of every update_metrics call
    det_in,             \* input of the pure-function specification; arguments of the
                        \* running wait_for_api_recovery call
    det_out,            \* output of the pure-function specification
    generator,          \* Optional: a single-backend generator object (its fields)
    feature_list,       \* Optional: the content of feature_list.json
    gen_result,         \* Optional: the tuple the last generate_code call returned
    gen_trace,          \* history variable: what the last generate_code call did, in order
    ledger_writes       \* history variable: every content that call wrote to feature_list.json

vars == <<sdk_available, primary, generators, current_framework, metrics_history,
          switching_history, now, pc, framework, frameworks_tried, attempt,
          result, calls, exec_log, attempts_log, det_in, det_out,
          generator, feature_list, gen_result, gen_trace, ledger_writes>>

orch_vars == <<sdk_available, primary, generators, current_framework, switching_history,
               pc, framework, frameworks_tried, attempt, result, calls, exec_log>>

det_vars == <<det_in, det_out>>

gen_vars == <<generator, feature_list, gen_result, gen_trace, ledger_writes>>

---------------------------------------------------------------------------
(* Bounds of the model *)

MaxCalls == 3

MaxTime == 600

MaxUpdates == 5
\* record_switch calls of the switching-history specification
MaxRecords == 53
\* patterns one log text matches in the classifier specification
MaxMatches == 2
\* generate_code calls on one generator object
MaxGenCalls == 2

---------------------------------------------------------------------------
(* Program constants *)

consecutive_failure_threshold == 3

window_size == 20

hysteresis_time == 300

MaxSwitchingHistory == 50

Frameworks == <<"claude", "opencode">>

FrameworkSet == {"claude", "opencode"}

None == <<>>

Some(v) == <<v>>

Max(a, b) == IF a >= b THEN a ELSE b

RECURSIVE SumSeq(_)
SumSeq(s) == IF s = <<>> THEN 0 ELSE Head(s) + SumSeq(Tail(s))

\* Python truthiness of an Optional[str]
Truthy(error) == error # None /\ error[1] # ""

\* value printed by the format spec ".2f", in hundredths (round half to even)
Round2(n, d) ==
    LET q == (100 * n) \div d
        r == (100 * n) % d
    IN  IF 2 * r < d THEN q
        ELSE IF 2 * r > d THEN q + 1
        ELSE IF q % 2 = 0 THEN q ELSE q + 1

---------------------------------------------------------------------------
(* HealthMetrics.health_score *)

health_den(m) == 600 * m.success_rate.den

\* health_num without the clamps max(0, ...)
health_num_unclamped(m) ==
    IF ~m.api_available THEN 0
    ELSE 240 * m.success_rate.num
         + m.success_rate.den * (  3 * (60 - m.response_time)
                                 + 12 * (10 - m.error_count)
                                 + 12 * (5 - m.consecutive_failures))

health_num(m) ==
    IF ~m.api_available THEN 0
    ELSE 240 * m.success_rate.num
         + m.success_rate.den * (  3 * Max(0, 60 - m.response_time)
                                 + 12 * Max(0, 10 - m.error_count)
                                 + 12 * Max(0, 5 - m.consecutive_failures))

\* health_score < p/q
health_score_below(m, p, q) == q * health_num(m) < p * health_den(m)

---------------------------------------------------------------------------
(* FailureDetector.should_trigger_switch *)

NoArg == 0 - 1

Reason(text, arg) == [text |-> text, arg |-> arg]

EmptyReason == Reason("", NoArg)

\* FailureDetector.__init__: the two thresholds; error_rate_threshold is the
\* fraction num/den
FailureDetector(cft, ert_num, ert_den) ==
    [consecutive_failure_threshold |-> cft,
     error_rate_threshold |-> [num |-> ert_num, den |-> ert_den]]

\* the detector the orchestrator builds from the default settings
default_detector == FailureDetector(consecutive_failure_threshold, 3, 10)

\* error_rate > error_rate_threshold, error_rate = error_count / total_tasks
error_rate_above(m, fd) ==
    fd.error_rate_threshold.den * m.error_count
        > fd.error_rate_threshold.num * m.total_tasks

\* should_trigger_switch testing the consecutive failures before the API
should_trigger_switch_api_second(m, fd) ==
    IF m.consecutive_failures >= fd.consecutive_failure_threshold
    THEN <<TRUE, Reason("Consecutive failures exceeded threshold", m.consecutive_failures)>>
    ELSE IF ~m.api_available
    THEN <<TRUE, Reason("API unavailable", NoArg)>>
    ELSE IF m.total_tasks > 5 /\ error_rate_above(m, fd)
    THEN <<TRUE, Reason("Error rate too high", Round2(m.error_count, m.total_tasks))>>
    ELSE IF health_score_below(m, 3, 10)
    THEN <<TRUE, Reason("Health score too low", Round2(health_num(m), health_den(m)))>>
    ELSE <<FALSE, EmptyReason>>

\* should_trigger_switch with `>` for `>=` in the consecutive-failure test
should_trigger_switch_strict(m, fd) ==
    IF ~m.api_available
    THEN <<TRUE, Reason("API unavailable", NoArg)>>
    ELSE IF m.consecutive_failures > fd.consecutive_failure_threshold
    THEN <<TRUE, Reason("Consecutive failures exceeded threshold", m.consecutive_failures)>>
    ELSE IF m.total_tasks > 5 /\ error_rate_above(m, fd)
    THEN <<TRUE, Reason("Error rate too high", Round2(m.error_count, m.total_tasks))>>
    ELSE IF health_score_below(m, 3, 10)
    THEN <<TRUE, Reason("Health score too low", Round2(health_num(m), health_den(m)))>>
    ELSE <<FALSE, EmptyReason>>

\* should_trigger_switch without the sample-size test `total_tasks > 5`
should_trigger_switch_any_sample(m, fd) ==
    IF ~m.api_available
    THEN <<TRUE, Reason("API unavailable", NoArg)>>
    ELSE IF m.consecutive_failures >= fd.consecutive_failure_threshold
    THEN <<TRUE, Reason("Consecutive failures exceeded threshold", m.consecutive_failures)>>
    ELSE IF error_rate_above(m, fd)
    THEN <<TRUE, Reason("Error rate too high", Round2(m.error_count, m.total_tasks))>>
    ELSE IF health_score_below(m, 3, 10)
    THEN <<TRUE, Reason("Health score too low", Round2(health_num(m), health_den(m)))>>
    ELSE <<FALSE, EmptyReason>>

should_trigger_switch(m, fd) ==
    IF ~m.api_available
    THEN <<TRUE, Reason("API unavailable", NoArg)>>
    ELSE IF m.consecutive_failures >= fd.consecutive_failure_threshold
    THEN <<TRUE, Reason("Consecutive failures exceeded threshold", m.consecutive_failures)>>
    ELSE IF m.total_tasks > 5 /\ error_rate_above(m, fd)
    THEN <<TRUE, Reason("Error rate too high", Round2(m.error_count, m.total_tasks))>>
    ELSE IF health_score_below(m, 3, 10)
    THEN <<TRUE, Reason("Health score too low", Round2(health_num(m), health_den(m)))>>
    ELSE <<FALSE, EmptyReason>>

---------------------------------------------------------------------------
(* PerformanceMonitor *)

succeeded(m) == m.success_rate.num > 0

\* sum(1 for m in history if m.success_rate > 0)
count_succeeded(history) ==
    Cardinality({i \in 1..Len(history) : succeeded(history[i])})

\* the loop `for metrics in reversed(history)`: length of the longest suffix
\* of entries whose success_rate == 0
RECURSIVE trailing_zero_rate(_)
trailing_zero_rate(history) ==
    IF history = <<>> THEN 0
    ELSE IF history[Len(history)].success_rate.num = 0
         THEN 1 + trailing_zero_rate(SubSeq(history, 1, Len(history) - 1))
         ELSE 0

\* update_metrics without the pop(0) of a full window
update_metrics_untrimmed(history, wsize, fw, response_time, success, error, ts) ==
    LET recent_tasks == Len(history)
        recent_successes == count_succeeded(history)
        consecutive_failures ==
            trailing_zero_rate(history) + (IF success THEN 0 ELSE 1)
        metrics ==
            [framework |-> fw,
             timestamp |-> ts,
             response_time |-> response_time,
             success_rate |-> [num |-> IF success THEN 1 ELSE 0, den |-> 1],
             error_count |-> IF Truthy(error) THEN 1 ELSE 0,
             last_error |-> error,
             consecutive_failures |-> consecutive_failures,
             api_available |-> TRUE,
             tasks_completed |-> recent_successes + (IF success THEN 1 ELSE 0),
             total_tasks |-> recent_tasks + 1]
        trimmed == Append(history, metrics)
        \* the four assignments run in order on the appended object: the
        \* count for tasks_completed already sees the new success_rate
        rated ==
            [metrics EXCEPT
                !.success_rate = [num |-> count_succeeded(trimmed),
                                  den |-> Len(trimmed)]]
        rolled ==
            [rated EXCEPT
                !.error_count = SumSeq([i \in 1..Len(trimmed) |-> trimmed[i].error_count]),
                !.tasks_completed =
                    count_succeeded([trimmed EXCEPT ![Len(trimmed)] = rated]),
                !.total_tasks = Len(trimmed)]
    IN  IF Len(trimmed) > 1
        THEN [trimmed EXCEPT ![Len(trimmed)] = rolled]
        ELSE trimmed

\* PerformanceMonitor.update_metrics: the new window of `fw`; the point the
\* call returns is the object it appended
update_metrics(history, wsize, fw, response_time, success, error, ts) ==
    LET recent_tasks == Len(history)
        recent_successes == count_succeeded(history)
        consecutive_failures ==
            trailing_zero_rate(history) + (IF success THEN 0 ELSE 1)
        metrics ==
            [framework |-> fw,
             timestamp |-> ts,
             response_time |-> response_time,
             success_rate |-> [num |-> IF success THEN 1 ELSE 0, den |-> 1],
             error_count |-> IF Truthy(error) THEN 1 ELSE 0,
             last_error |-> error,
             consecutive_failures |-> consecutive_failures,
             api_available |-> TRUE,
             tasks_completed |-> recent_successes + (IF success THEN 1 ELSE 0),
             total_tasks |-> recent_tasks + 1]
        appended == Append(history, metrics)
        trimmed == IF Len(appended) > wsize THEN Tail(appended) ELSE appended
        \* the four assignments run in order on the appended object: the
        \* count for tasks_completed already sees the new success_rate
        rated ==
            [metrics EXCEPT
                !.success_rate = [num |-> count_succeeded(trimmed),
                                  den |-> Len(trimmed)]]
        rolled ==
            [rated EXCEPT
                !.error_count = SumSeq([i \in 1..Len(trimmed) |-> trimmed[i].error_count]),
                !.tasks_completed =
                    count_succeeded([trimmed EXCEPT ![Len(trimmed)] = rated]),
                !.total_tasks = Len(trimmed)]
    IN  IF Len(trimmed) > 1
        THEN [trimmed EXCEPT ![Len(trimmed)] = rolled]
        ELSE trimmed

\* PerformanceMonitor.get_current_metrics
get_current_metrics(mh, fw) ==
    IF fw \notin DOMAIN mh \/ mh[fw] = <<>> THEN None
    ELSE Some(mh[fw][Len(mh[fw])])

\* PerformanceMonitor.check_api_availability: constructing the adapter in
\* simulation mode fails only when its SDK is not importable
check_api_availability(fw, sdk) ==
    IF fw \in FrameworkSet THEN fw \in sdk ELSE FALSE

---------------------------------------------------------------------------
(* SwitchingEngine *)

\* the target computed with its two branches exchanged
other_framework_of_same(fw) == IF fw = "claude" THEN "claude" ELSE "opencode"

other_framework_of(fw) == IF fw = "claude" THEN "opencode" ELSE "claude"

\* the hysteresis test with the comparison reversed
in_hysteresis_reversed(sh, t) ==
    /\ sh # <<>>
    /\ t - sh[Len(sh)].timestamp > hysteresis_time

\* the hysteresis test of should_switch_framework
in_hysteresis(sh, t) ==
    /\ sh # <<>>
    /\ t - sh[Len(sh)].timestamp < hysteresis_time

\* should_switch_framework asking the Failure Detector before the hysteresis test
should_switch_framework_detector_first(sh, t, cur, current_metrics, fallback_metrics, fd) ==
    LET trig == should_trigger_switch(current_metrics, fd)
    IN  IF ~trig[1]
        THEN <<FALSE, "", trig[2]>>
        ELSE IF in_hysteresis(sh, t)
        THEN <<FALSE, "", Reason("Recent switch hysteresis", NoArg)>>
        ELSE IF fallback_metrics # None
                /\ health_score_below(fallback_metrics[1], 1, 2)
        THEN <<FALSE, "", Reason("Target framework unhealthy", NoArg)>>
        ELSE <<TRUE, other_framework_of(cur), trig[2]>>

\* should_switch_framework without the validation of the target framework
should_switch_framework_unvalidated(sh, t, cur, current_metrics, fallback_metrics, fd) ==
    IF in_hysteresis(sh, t)
    THEN <<FALSE, "", Reason("Recent switch hysteresis", NoArg)>>
    ELSE LET trig == should_trigger_switch(current_metrics, fd)
         IN  IF ~trig[1]
             THEN <<FALSE, "", trig[2]>>
             ELSE <<TRUE, other_framework_of(cur), trig[2]>>

\* SwitchingEngine.should_switch_framework: (should_switch, target, reason);
\* the target "" is the empty string of the refusing returns
should_switch_framework(sh, t, cur, current_metrics, fallback_metrics, fd) ==
    IF in_hysteresis(sh, t)
    THEN <<FALSE, "", Reason("Recent switch hysteresis", NoArg)>>
    ELSE LET trig == should_trigger_switch(current_metrics, fd)
         IN  IF ~trig[1]
             THEN <<FALSE, "", trig[2]>>
             ELSE IF fallback_metrics # None
                     /\ health_score_below(fallback_metrics[1], 1, 2)
             THEN <<FALSE, "", Reason("Target framework unhealthy", NoArg)>>
             ELSE <<TRUE, other_framework_of(cur), trig[2]>>

\* record_switch trimming the newest event instead of the oldest
record_switch_drop_newest(sh, from_framework, to_framework, reason, metrics, success, ts) ==
    LET event == [timestamp |-> ts,
                  from_framework |-> from_framework,
                  to_framework |-> to_framework,
                  reason |-> reason,
                  trigger_metrics |-> metrics,
                  success |-> success]
        appended == Append(sh, event)
    IN  IF Len(appended) > MaxSwitchingHistory
        THEN SubSeq(appended, 1, Len(appended) - 1)
        ELSE appended

\* record_switch storing its first two arguments in each other's field
record_switch_swapped(sh, from_framework, to_framework, reason, metrics, success, ts) ==
    LET event == [timestamp |-> ts,
                  from_framework |-> to_framework,
                  to_framework |-> from_framework,
                  reason |-> reason,
                  trigger_metrics |-> metrics,
                  success |-> success]
        appended == Append(sh, event)
    IN  IF Len(appended) > MaxSwitchingHistory THEN Tail(appended) ELSE appended

\* SwitchingEngine.record_switch
record_switch(sh, from_framework, to_framework, reason, metrics, success, ts) ==
    LET event == [timestamp |-> ts,
                  from_framework |-> from_framework,
                  to_framework |-> to_framework,
                  reason |-> reason,
                  trigger_metrics |-> metrics,
                  success |-> success]
        appended == Append(sh, event)
    IN  IF Len(appended) > MaxSwitchingHistory THEN Tail(appended) ELSE appended

---------------------------------------------------------------------------
\* no single-backend generator object is under observation
NoGenerator ==
    /\ generator = None
    /\ feature_list = None
    /\ gen_result = None
    /\ gen_trace = <<>>
    /\ ledger_writes = <<>>

---------------------------------------------------------------------------
(* IntelligentFallbackGenerator *)

\* what one call of an adapter's generate_code can do: return
\* (project_dir, True), return (None, False), raise an exception
Outcomes == {"ok", "failed", "raise"}

\* str(e) of the exception an adapter raises
ErrorMessage == "boom"

\* seconds an adapter call can take
RtSet == {0, 60, 300}

\* seconds that can pass between two calls
TickSet == {300}

\* names the configuration can give the primary framework
PrimaryNames == {"claude", "opencode", "gemini"}

ProjectDir == "project_dir"

\* _execute_with_monitoring without its try/except
execute_with_monitoring_uncaught(outcome, response_time) ==
    IF outcome = "ok"
    THEN [project_dir |-> Some(ProjectDir), success |-> TRUE,
          response_time |-> response_time, error |-> None, propagated |-> FALSE]
    ELSE IF outcome = "failed"
    THEN [project_dir |-> None, success |-> FALSE,
          response_time |-> response_time, error |-> None, propagated |-> FALSE]
    ELSE [project_dir |-> None, success |-> FALSE,
          response_time |-> response_time,
          error |-> Some(ErrorMessage),
          propagated |-> TRUE]

\* IntelligentFallbackGenerator._execute_with_monitoring:
\* (project_dir, success, response_time, error_message); `propagated` tells
\* whether the adapter's exception leaves the method
execute_with_monitoring(outcome, response_time) ==
    IF outcome = "ok"
    THEN [project_dir |-> Some(ProjectDir), success |-> TRUE,
          response_time |-> response_time, error |-> None, propagated |-> FALSE]
    ELSE IF outcome = "failed"
    THEN [project_dir |-> None, success |-> FALSE,
          response_time |-> response_time, error |-> None, propagated |-> FALSE]
    ELSE [project_dir |-> None, success |-> FALSE,
          response_time |-> response_time,
          error |-> Some(ErrorMessage),
          propagated |-> FALSE]

\* IntelligentFallbackGenerator._initialize_generators with __init__: the
\* adapters that could be constructed; construction needs the SDK
OrchestratorInit ==
    /\ sdk_available \in SUBSET FrameworkSet
    /\ generators \in (SUBSET sdk_available) \ {{}}
    /\ primary \in PrimaryNames
    /\ current_framework = primary
    /\ metrics_history = [f \in FrameworkSet |-> <<>>]
    /\ switching_history = <<>>
    /\ now = 0
    /\ pc = "idle"
    /\ framework = ""
    /\ frameworks_tried = <<>>
    /\ attempt = 0
    /\ result = None
    /\ calls = 0
    /\ exec_log = <<>>
    /\ attempts_log = [f \in FrameworkSet |-> <<>>]

Init ==
    /\ OrchestratorInit
    /\ det_in = None
    /\ det_out = None
    /\ NoGenerator

InSeq(x, s) == \E i \in 1..Len(s) : s[i] = x

\* line 541 without the restriction to the constructed adapters
available_frameworks_any(gens, fw) ==
    SelectSeq(Frameworks, LAMBDA f : f # fw)

\* line 541: the adapters other than `fw`, in the order __init__ built them
available_frameworks(gens, fw) ==
    SelectSeq(Frameworks, LAMBDA f : f \in gens /\ f # fw)

\* the loop with range(3) and without the `framework in frameworks_tried` test
loop_continues_thrice(att, fw, tried) == att < 3

\* lines 548-550: the loop runs another iteration, with `fw` as framework
loop_continues(att, fw, tried) == att < 2 /\ ~InSeq(fw, tried)

FailureResult(tried) ==
    Some([project_dir |-> None, success |-> FALSE, frameworks_tried |-> tried])

\* generate_code_with_fallback, lines 533-546: the call starts
generate_code_with_fallback_begin ==
    /\ pc = "idle"
    /\ calls < MaxCalls
    /\ now <= MaxTime          \* calls are examined up to this clock value
    /\ calls' = calls + 1
    /\ frameworks_tried' = <<>>
    /\ exec_log' = <<>>
    /\ attempt' = 0
    /\ LET available == available_frameworks(generators, current_framework)
       IN  IF current_framework \in generators
           THEN /\ framework' = current_framework
                /\ pc' = "loop"
                /\ result' = None
                /\ UNCHANGED current_framework
           ELSE IF available # <<>>
           THEN /\ framework' = available[1]
                /\ current_framework' = available[1]
                /\ pc' = "loop"
                /\ result' = None
           ELSE /\ pc' = "returned"
                /\ result' = FailureResult(<<>>)
                /\ UNCHANGED <<framework, current_framework>>
    /\ UNCHANGED <<sdk_available, primary, generators, metrics_history,
                   switching_history, now, attempts_log, det_vars, gen_vars>>

\* generate_code_with_fallback, lines 548-597: one iteration of the loop,
\* with the return that follows it when the loop ends
generate_code_with_fallback_attempt ==
    /\ pc = "loop"
    /\ \E outcome \in Outcomes, rt \in RtSet :
        LET tried == Append(frameworks_tried, framework)
            ex == execute_with_monitoring(outcome, rt)
            t == now + rt
            hist1 == update_metrics(metrics_history[framework], window_size,
                                    framework, ex.response_time, ex.success,
                                    ex.error, t)
            hist2 == [hist1 EXCEPT ![Len(hist1)].api_available =
                          check_api_availability(framework, sdk_available)]
            metrics == hist2[Len(hist2)]
            mh == [metrics_history EXCEPT ![framework] = hist2]
            other_metrics == get_current_metrics(mh, other_framework_of(framework))
            dec == should_switch_framework(switching_history, t, framework,
                                           metrics, other_metrics, default_detector)
            entry(d, sw) == [framework |-> framework, outcome |-> outcome,
                             metrics |-> metrics, decision |-> d, switched |-> sw]
        IN  /\ now' = t
            /\ frameworks_tried' = tried
            /\ IF ex.propagated
               THEN /\ pc' = "raised"
                    /\ exec_log' = Append(exec_log, entry(None, FALSE))
                    /\ UNCHANGED <<metrics_history, attempts_log, switching_history,
                                   current_framework, framework, attempt, result>>
               ELSE /\ metrics_history' = mh
                    /\ attempts_log' = [attempts_log EXCEPT ![framework] =
                                            Append(@, [success |-> ex.success,
                                                       error |-> ex.error])]
                    /\ IF ex.success
                       THEN /\ pc' = "returned"
                            /\ result' = Some([project_dir |-> ex.project_dir,
                                               success |-> TRUE,
                                               frameworks_tried |-> tried])
                            /\ exec_log' = Append(exec_log, entry(None, FALSE))
                            /\ UNCHANGED <<switching_history, current_framework,
                                           framework, attempt>>
                       ELSE IF dec[1] /\ dec[2] \in generators
                       THEN /\ switching_history' =
                                  record_switch(switching_history, framework, dec[2],
                                                dec[3], metrics, FALSE, t)
                            /\ current_framework' = dec[2]
                            /\ framework' = dec[2]
                            /\ attempt' = attempt + 1
                            /\ exec_log' = Append(exec_log, entry(Some(dec), TRUE))
                            /\ IF loop_continues(attempt + 1, dec[2], tried)
                               THEN /\ pc' = "loop"
                                    /\ UNCHANGED result
                               ELSE /\ pc' = "returned"
                                    /\ result' = FailureResult(tried)
                       ELSE /\ pc' = "returned"
                            /\ result' = FailureResult(tried)
                            /\ exec_log' = Append(exec_log, entry(Some(dec), FALSE))
                            /\ UNCHANGED <<switching_history, current_framework,
                                           framework, attempt>>
    /\ UNCHANGED <<sdk_available, primary, generators, calls, det_vars, gen_vars>>

\* the caller takes the returned tuple
generate_code_with_fallback_return ==
    /\ pc = "returned"
    /\ pc' = "idle"
    /\ UNCHANGED <<sdk_available, primary, generators, current_framework,
                   metrics_history, switching_history, now, framework, frameworks_tried, attempt,
                   result, calls, exec_log, attempts_log, det_vars, gen_vars>>

\* time passes between two calls
Tick ==
    /\ pc = "idle"
    /\ \E d \in TickSet :
        /\ now + d <= MaxTime
        /\ now' = now + d
    /\ UNCHANGED <<orch_vars, metrics_history, attempts_log, det_vars, gen_vars>>

Next ==
    \/ generate_code_with_fallback_begin
    \/ generate_code_with_fallback_attempt
    \/ generate_code_with_fallback_return
    \/ Tick

Spec == Init /\ [][Next]_vars

---------------------------------------------------------------------------
(* The Performance Monitor on its own: any sequence of update_metrics calls *)

\* window_size given to PerformanceMonitor.__init__ in this specification
MonWindow == 3

MonErrors == {None, Some(ErrorMessage)}

MonInit ==
    /\ sdk_available = FrameworkSet
    /\ generators = FrameworkSet
    /\ primary = "claude"
    /\ current_framework = "claude"
    /\ metrics_history = [f \in FrameworkSet |-> <<>>]
    /\ switching_history = <<>>
    /\ now = 0
    /\ pc = "monitor"
    /\ framework = ""
    /\ frameworks_tried = <<>>
    /\ attempt = 0
    /\ result = None
    /\ calls = 0
    /\ exec_log = <<>>
    /\ attempts_log = [f \in FrameworkSet |-> <<>>]
    /\ det_in = None
    /\ det_out = None
    /\ NoGenerator

\* one call of PerformanceMonitor.update_metrics
update_metrics_call ==
    /\ pc = "monitor"
    /\ calls < MaxUpdates
    /\ \E fw \in FrameworkSet, success \in BOOLEAN, error \in MonErrors :
        /\ metrics_history' = [metrics_history EXCEPT ![fw] =
                                  update_metrics(@, MonWindow, fw, 0, success, error, now)]
        /\ attempts_log' = [attempts_log EXCEPT ![fw] =
                               Append(@, [success |-> success, error |-> error])]
    /\ calls' = calls + 1
    /\ UNCHANGED <<sdk_available, primary, generators, current_framework,
                   switching_history, now, pc, framework, frameworks_tried,
                   attempt, result, exec_log, det_vars, gen_vars>>

MonNext == update_metrics_call

SpecMon == MonInit /\ [][MonNext]_vars

---------------------------------------------------------------------------
(* The pure functions health_score and should_trigger_switch on bounded inputs *)

DetRates == {[num |-> 0, den |-> 1], [num |-> 1, den |-> 2],
             [num |-> 4, den |-> 5], [num |-> 1, den |-> 1]}

DetMetrics ==
    [framework : {"claude"},
     timestamp : {0},
     response_time : {0, 10, 30, 61, 300},
     success_rate : DetRates,
     error_count : {0, 2, 11},
     last_error : {None},
     consecutive_failures : {0, 2, 3, 6},
     api_available : BOOLEAN,
     tasks_completed : {0},
     total_tasks : {1, 6, 10}]

DetDetectors == {FailureDetector(c, n, 10) : c \in {1, 3}, n \in {3, 5}}

DetInit ==
    /\ sdk_available = FrameworkSet
    /\ generators = FrameworkSet
    /\ primary = "claude"
    /\ current_framework = "claude"
    /\ metrics_history = [f \in FrameworkSet |-> <<>>]
    /\ switching_history = <<>>
    /\ now = 0
    /\ pc = "detector"
    /\ framework = ""
    /\ frameworks_tried = <<>>
    /\ attempt = 0
    /\ result = None
    /\ calls = 0
    /\ exec_log = <<>>
    /\ attempts_log = [f \in FrameworkSet |-> <<>>]
    /\ det_in \in {Some([metrics |-> m, detector |-> fd]) :
                       m \in DetMetrics, fd \in DetDetectors}
    /\ det_out = None
    /\ NoGenerator

\* read metrics.health_score and call failure_detector.should_trigger_switch(metrics)
should_trigger_switch_call ==
    /\ pc = "detector"
    /\ det_out = None
    /\ det_out' = Some([health_score |-> [num |-> health_num(det_in[1].metrics),
                                          den |-> health_den(det_in[1].metrics)],
                        trigger |-> should_trigger_switch(det_in[1].metrics,
                                                          det_in[1].detector)])
    /\ UNCHANGED <<orch_vars, metrics_history, now, attempts_log, det_in, gen_vars>>

DetNext == should_trigger_switch_call

SpecDet == DetInit /\ [][DetNext]_vars

---------------------------------------------------------------------------
(* The pure function should_switch_framework on bounded inputs *)

EngFrameworks == {"claude", "opencode", "other"}

EngMetrics ==
    [framework : {"claude"},
     timestamp : {0},
     response_time : {0, 300},
     success_rate : {[num |-> 0, den |-> 1], [num |-> 1, den |-> 1]},
     error_count : {0},
     last_error : {None},
     consecutive_failures : {0, 3},
     api_available : BOOLEAN,
     tasks_completed : {0},
     total_tasks : {1}]

EngFallbacks == {None} \cup {Some(m) : m \in EngMetrics}

\* the engine has recorded no switch, or one switch at time 0
EngHistories ==
    {<<>>} \cup
    {record_switch(<<>>, "claude", "opencode", Reason("API unavailable", NoArg),
                   m, FALSE, 0) :
        m \in {e \in EngMetrics : ~e.api_available /\ e.response_time = 0
                                     /\ e.success_rate.num = 0
                                     /\ e.consecutive_failures = 0}}

EngTimes == {0, hysteresis_time - 1, hysteresis_time}

EngInit ==
    /\ sdk_available = FrameworkSet
    /\ generators = FrameworkSet
    /\ primary = "claude"
    /\ current_framework = "claude"
    /\ metrics_history = [f \in FrameworkSet |-> <<>>]
    /\ switching_history \in EngHistories
    /\ now \in EngTimes
    /\ pc = "engine"
    /\ framework = ""
    /\ frameworks_tried = <<>>
    /\ attempt = 0
    /\ result = None
    /\ calls = 0
    /\ exec_log = <<>>
    /\ attempts_log = [f \in FrameworkSet |-> <<>>]
    /\ det_in \in {Some([current |-> c, metrics |-> m, fallback |-> fb,
                          detector |-> default_detector]) :
                       c \in EngFrameworks, m \in EngMetrics, fb \in EngFallbacks}
    /\ det_out = None
    /\ NoGenerator

\* one call of switching_engine.should_switch_framework
should_switch_framework_call ==
    /\ pc = "engine"
    /\ det_out = None
    /\ det_out' = Some([decision |->
                            should_switch_framework(switching_history, now,
                                                    det_in[1].current,
                                                    det_in[1].metrics,
                                                    det_in[1].fallback,
                                                    det_in[1].detector)])
    /\ UNCHANGED <<orch_vars, metrics_history, now, attempts_log, det_in, gen_vars>>

EngNext == should_switch_framework_call

SpecEng == EngInit /\ [][EngNext]_vars

---------------------------------------------------------------------------
(* The Switching Engine's history on its own: a run of approved switches,   *)
(* each recorded by record_switch, the current framework alternating        *)

HistInit ==
    /\ sdk_available = FrameworkSet
    /\ generators = FrameworkSet
    /\ primary = "claude"
    /\ current_framework \in FrameworkSet
    /\ metrics_history = [f \in FrameworkSet |-> <<>>]
    /\ switching_history = <<>>
    /\ now \in 0..2
    /\ pc = "history"
    /\ framework = ""
    /\ frameworks_tried = <<>>
    /\ attempt = 0
    /\ result = None
    /\ calls = 0
    /\ exec_log = <<>>
    /\ attempts_log = [f \in FrameworkSet |-> <<>>]
    /\ det_in = None
    /\ det_out = None
    /\ NoGenerator

\* one call of SwitchingEngine.record_switch, as generate_code_with_fallback
\* makes it after an approved switch; exec_log keeps every event recorded
record_switch_call ==
    /\ pc = "history"
    /\ calls < MaxRecords
    /\ LET target == other_framework_of(current_framework)
           recorded == record_switch(switching_history, current_framework, target,
                                     Reason("API unavailable", NoArg), None, TRUE, now)
       IN  /\ switching_history' = recorded
           /\ exec_log' = Append(exec_log, recorded[Len(recorded)])
           /\ current_framework' = target
    /\ now' = now + 1
    /\ calls' = calls + 1
    /\ UNCHANGED <<sdk_available, primary, generators, metrics_history, pc,
                   framework, frameworks_tried, attempt, result, attempts_log,
                   det_vars, gen_vars>>

HistNext == record_switch_call

SpecHist == HistInit /\ [][HistNext]_vars

---------------------------------------------------------------------------
(* The two log classifiers: utils/log_analyzer.py LogAnalyzer and           *)
(* FailureDetector.analyze_log_output.                                      *)
(*                                                                          *)
(* A log text is the set of pattern strings that                            *)
(* re.search(pattern, text, re.IGNORECASE) finds in it.  The patterns are   *)
(* independent: every set of them is the match set of some text (one line   *)
(* per pattern).  confidence is in tenths.                                  *)

CRITICAL_PATTERNS ==
    << [category |-> "authentication",
        patterns |-> <<"API key.*invalid", "authentication.*failed",
                       "unauthorized.*access", "invalid.*credentials",
                       "token.*expired">>],
       [category |-> "rate_limiting",
        patterns |-> <<"rate limit.*exceeded", "quota.*exceeded",
                       "throttled.*request", "too many.*requests",
                       "billing.*limit">>],
       [category |-> "network",
        patterns |-> <<"connection.*timeout", "network.*error",
                       "dns.*resolution.*failed", "connection.*refused",
                       "service.*unavailable">>],
       [category |-> "resource",
        patterns |-> <<"memory.*error", "out of.*memory", "disk.*full",
                       "resource.*exhausted", "timeout.*exceeded">>] >>

FRAMEWORK_PATTERNS ==
    [claude |-> <<"claude.*session.*failed", "mcp.*server.*unavailable",
                  "context.*window.*exceeded", "claude.*sdk.*error",
                  "anthropic.*api.*error">>,
     opencode |-> <<"opencode.*session.*failed", "provider.*unavailable",
                    "model.*not.*supported", "session.*timeout",
                    "opencode.*api.*error">>]

EXECUTION_PATTERNS ==
    << [category |-> "import_errors",
        patterns |-> <<"module.*not.*found", "import.*error",
                       "no module named", "cannot import.*name">>],
       [category |-> "syntax_errors",
        patterns |-> <<"syntax.*error", "invalid.*syntax",
                       "indentation.*error", "unexpected.*token">>],
       [category |-> "runtime_errors",
        patterns |-> <<"runtime.*error", "null.*pointer",
                       "segmentation.*fault", "stack.*overflow">>] >>

\* FailureDetector.FAILURE_PATTERNS
FAILURE_PATTERNS ==
    [api_errors |-> <<"API key.*invalid", "rate limit.*exceeded",
                      "authentication.*failed", "connection.*timeout",
                      "service.*unavailable", "quota.*exceeded",
                      "billing.*issue">>,
     execution_errors |-> <<"command.*not.*found", "module.*not.*found",
                            "import.*error", "syntax.*error",
                            "runtime.*error", "permission.*denied">>,
     framework_specific |->
        [claude |-> <<"claude.*session.*failed", "mcp.*server.*unavailable",
                      "context.*window.*exceeded", "claude.*sdk.*error">>,
         opencode |-> <<"opencode.*session.*failed", "provider.*unavailable",
                        "model.*not.*supported", "session.*timeout">>]]

\* re.search(pattern, content, re.IGNORECASE) is not None
re_search(pattern, content) == pattern \in content

\* f"{framework}_specific"
framework_specific_type(fw) ==
    IF fw = "claude" THEN "claude_specific" ELSE "opencode_specific"

\* _check_patterns returning only the first pattern that matches
check_patterns_first(content, patterns) ==
    LET all == SelectSeq(patterns, LAMBDA q : re_search(q, content))
    IN  IF all = <<>> THEN <<>> ELSE <<all[1]>>

\* LogAnalyzer._check_patterns: the matching patterns, in list order
check_patterns(content, patterns) ==
    SelectSeq(patterns, LAMBDA q : re_search(q, content))

\* LogAnalyzer._severity_weight
severity_weight(severity) ==
    CASE severity = "low" -> 1
      [] severity = "medium" -> 2
      [] severity = "high" -> 3
      [] severity = "critical" -> 4
      [] OTHER -> 0

\* the initial LogAnalysisResult with severity "medium"
EmptyAnalysisMedium ==
    [has_errors |-> FALSE,
     error_type |-> None,
     error_patterns |-> <<>>,
     severity |-> "medium",
     confidence |-> 0,
     suggestions |-> <<>>]

\* the LogAnalysisResult analyze_log_content starts from; a suggestion list
\* is the sequence of the lookups that filled it
EmptyAnalysis ==
    [has_errors |-> FALSE,
     error_type |-> None,
     error_patterns |-> <<>>,
     severity |-> "low",
     confidence |-> 0,
     suggestions |-> <<>>]

\* the loop over CRITICAL_PATTERNS.items(), from category i on
RECURSIVE critical_step(_, _, _)
critical_step(res, content, i) ==
    IF i > Len(CRITICAL_PATTERNS) THEN res
    ELSE LET category == CRITICAL_PATTERNS[i].category
             matches == check_patterns(content, CRITICAL_PATTERNS[i].patterns)
         IN  critical_step(
                 IF matches # <<>>
                 THEN [has_errors |-> TRUE,
                       error_type |-> Some(category),
                       error_patterns |-> res.error_patterns \o matches,
                       severity |-> "critical",
                       confidence |-> 9,
                       suggestions |-> Append(res.suggestions, category)]
                 ELSE res,
                 content, i + 1)

\* the framework block assigning type, severity and confidence outright
framework_step_overrides(res, content, fw) ==
    IF Truthy(fw) /\ fw[1] \in DOMAIN FRAMEWORK_PATTERNS
    THEN LET matches == check_patterns(content, FRAMEWORK_PATTERNS[fw[1]])
         IN  IF matches # <<>>
             THEN [has_errors |-> TRUE,
                   error_type |-> Some(framework_specific_type(fw[1])),
                   error_patterns |-> res.error_patterns \o matches,
                   severity |-> "high",
                   confidence |-> 8,
                   suggestions |-> Append(res.suggestions, fw[1])]
             ELSE res
    ELSE res

\* the block `if framework and framework in self.FRAMEWORK_PATTERNS`
framework_step(res, content, fw) ==
    IF Truthy(fw) /\ fw[1] \in DOMAIN FRAMEWORK_PATTERNS
    THEN LET matches == check_patterns(content, FRAMEWORK_PATTERNS[fw[1]])
         IN  IF matches # <<>>
             THEN [has_errors |-> TRUE,
                   error_type |-> IF ~Truthy(res.error_type)
                                  THEN Some(framework_specific_type(fw[1]))
                                  ELSE res.error_type,
                   error_patterns |-> res.error_patterns \o matches,
                   severity |-> IF severity_weight(res.severity) >= severity_weight("high")
                                THEN res.severity ELSE "high",
                   confidence |-> Max(res.confidence, 8),
                   suggestions |-> Append(res.suggestions, fw[1])]
             ELSE res
    ELSE res

\* the loop over EXECUTION_PATTERNS.items() with its break, from category i on
RECURSIVE execution_step(_, _, _)
execution_step(res, content, i) ==
    IF i > Len(EXECUTION_PATTERNS) THEN res
    ELSE LET category == EXECUTION_PATTERNS[i].category
             matches == check_patterns(content, EXECUTION_PATTERNS[i].patterns)
         IN  IF matches # <<>>
             THEN [has_errors |-> TRUE,
                   error_type |-> Some(category),
                   error_patterns |-> res.error_patterns \o matches,
                   severity |-> "medium",
                   confidence |-> 7,
                   suggestions |-> Append(res.suggestions, category)]
             ELSE execution_step(res, content, i + 1)

\* LogAnalyzer.analyze_log_content
analyze_log_content(log_content, fw) ==
    LET critical == critical_step(EmptyAnalysis, log_content, 1)
        specific == framework_step(critical, log_content, fw)
    IN  IF ~specific.has_errors
        THEN execution_step(specific, log_content, 1)
        ELSE specific

\* the dict analyze_log_output starts from
EmptyOutputAnalysis ==
    [has_errors |-> FALSE,
     error_type |-> None,
     error_patterns |-> <<>>,
     severity |-> "low"]

\* FailureDetector.analyze_log_output
analyze_log_output(output, fw) ==
    LET api == check_patterns(output, FAILURE_PATTERNS.api_errors)
        a1 == IF api # <<>>
              THEN [has_errors |-> TRUE,
                    error_type |-> Some("api_error"),
                    error_patterns |-> api,
                    severity |-> "high"]
              ELSE EmptyOutputAnalysis
        exec == IF ~a1.has_errors
                THEN check_patterns(output, FAILURE_PATTERNS.execution_errors)
                ELSE <<>>
        a2 == IF exec # <<>>
              THEN [has_errors |-> TRUE,
                    error_type |-> Some("execution_error"),
                    error_patterns |-> a1.error_patterns \o exec,
                    severity |-> "medium"]
              ELSE a1
        specific ==
              IF fw # None
                 /\ fw[1] \in DOMAIN FAILURE_PATTERNS.framework_specific
              THEN check_patterns(output,
                                  FAILURE_PATTERNS.framework_specific[fw[1]])
              ELSE <<>>
    IN  IF specific # <<>>
        THEN [has_errors |-> TRUE,
              error_type |-> Some(framework_specific_type(fw[1])),
              error_patterns |-> a2.error_patterns \o specific,
              severity |-> "high"]
        ELSE a2

Range(seq) == {seq[i] : i \in DOMAIN seq}

RECURSIVE CategoryPatterns(_, _)
CategoryPatterns(table, i) ==
    IF i > Len(table) THEN {}
    ELSE Range(table[i].patterns) \cup CategoryPatterns(table, i + 1)

CriticalPatternSet == CategoryPatterns(CRITICAL_PATTERNS, 1)
FrameworkPatternSet ==
    Range(FRAMEWORK_PATTERNS.claude) \cup Range(FRAMEWORK_PATTERNS.opencode)
ExecutionPatternSet == CategoryPatterns(EXECUTION_PATTERNS, 1)
LogAnalyzerPatternSet ==
    CriticalPatternSet \cup FrameworkPatternSet \cup ExecutionPatternSet
FailureDetectorPatternSet ==
    Range(FAILURE_PATTERNS.api_errors)
        \cup Range(FAILURE_PATTERNS.execution_errors)
        \cup Range(FAILURE_PATTERNS.framework_specific.claude)
        \cup Range(FAILURE_PATTERNS.framework_specific.opencode)
AllPatterns == LogAnalyzerPatternSet \cup FailureDetectorPatternSet

\* the match sets of at most n patterns
RECURSIVE MatchSets(_)
MatchSets(n) ==
    IF n = 0 THEN {{}}
    ELSE LET smaller == MatchSets(n - 1)
         IN  smaller \cup {S \cup {q} : S \in smaller, q \in AllPatterns}

\* the framework argument: absent, a known framework, or an unknown one
LogFrameworks == {None, Some("claude"), Some("opencode"), Some("gemini")}

LogInit ==
    /\ sdk_available = FrameworkSet
    /\ generators = FrameworkSet
    /\ primary = "claude"
    /\ current_framework = "claude"
    /\ metrics_history = [f \in FrameworkSet |-> <<>>]
    /\ switching_history = <<>>
    /\ now = 0
    /\ pc = "classifier"
    /\ framework = ""
    /\ frameworks_tried = <<>>
    /\ attempt = 0
    /\ result = None
    /\ calls = 0
    /\ exec_log = <<>>
    /\ attempts_log = [f \in FrameworkSet |-> <<>>]
    /\ det_in \in {Some([content |-> c, framework |-> f]) :
                       c \in MatchSets(MaxMatches), f \in LogFrameworks}
    /\ det_out = None
    /\ NoGenerator

\* one text given to LogAnalyzer.analyze_log_content and to
\* FailureDetector.analyze_log_output
analyze_log_call ==
    /\ pc = "classifier"
    /\ det_out = None
    /\ det_out' = Some([log_analyzer |->
                            analyze_log_content(det_in[1].content, det_in[1].framework),
                        failure_detector |->
                            analyze_log_output(det_in[1].content, det_in[1].framework)])
    /\ UNCHANGED <<orch_vars, metrics_history, now, attempts_log, det_in, gen_vars>>

LogNext == analyze_log_call

SpecLog == LogInit /\ [][LogNext]_vars

---------------------------------------------------------------------------
(* The single-backend generators and their generate_code:                   *)
(*   "claude_standalone"   autonomous_code_generator.AutonomousCodeGenerator *)
(*   "claude_unified"      unified_autonomous_generator.ClaudeAutonomousGenerator *)
(*   "opencode_unified"    unified_autonomous_generator.OpenCodeAutonomousGenerator *)
(*   "opencode_standalone" opencode_autonomous_generator.OpenCodeAutonomousGenerator *)
(*                                                                          *)
(* The task is a Python task without feature flags.  What the world does    *)
(* during one call is the record env: how the live agent session goes, if   *)
(* the Local Template Emitter can write its files and run git, how the      *)
(* generated program runs, and how the session delete goes.  A function of  *)
(* the code is an operator from the state st before it (the object self,    *)
(* feature_list.json, the events and ledger writes so far) to the state     *)
(* after it, with the value it returns or the fact that it raised.          *)

\* the values of task_analysis["complexity"] that the three feature list
\* builders treat alike ("web" has records of its own in two of them)
Complexities == {"simple", "cli", "library"}
LiveOutcomes == {"ok", "connect", "initializer", "coding"}
ProgramOutcomes == {"exit0", "exit1", "timeout"}

GenEnvironments ==
    [complexity : Complexities,     \* task_analysis["complexity"]
     live : LiveOutcomes,           \* "ok", or the step of the live session that raises
     main_file : BOOLEAN,           \* a live agent left src/main.py behind
     emitter : {"ok", "error"},     \* the template files and git can be written / run
     program : ProgramOutcomes,     \* python3 src/main.py under timeout=30
     delete : {"ok", "error"}]      \* client.session.delete

\* create_comprehensive_feature_list: the records in list order, each with
\* its position, its priority and passes = False
create_comprehensive_feature_list(complexity) ==
    LET priorities ==
            (IF complexity = "simple" THEN <<"high">>
             ELSE IF complexity = "cli" THEN <<"high", "high">>
             ELSE <<>>)
                \o <<"medium", "high", "medium">>
    IN  [i \in DOMAIN priorities |->
            [feature |-> i, priority |-> priorities[i], passes |-> FALSE]]

\* the update loop giving every record the verifier's result
mark_features_uniform(features, success) ==
    [i \in DOMAIN features |-> [features[i] EXCEPT !.passes = success]]

\* the loop `for feature in features` of the simulation functions
mark_features(features, success) ==
    [i \in DOMAIN features |->
        [features[i] EXCEPT !.passes =
            IF features[i].priority = "high" THEN success ELSE TRUE]]

Event(st, e) == [st EXCEPT !.trace = Append(@, e)]

\* json.dump(features, f) into feature_list.json
write_feature_list(st, features) ==
    [st EXCEPT !.feature_list = Some(features),
               !.writes = Append(@, features),
               !.trace = Append(@, "write_feature_list")]

Returns(st, value) == [st |-> st, raised |-> FALSE, ret |-> value]
Raises(st) == [st |-> st, raised |-> TRUE, ret |-> FALSE]

live_event(live) ==
    CASE live = "ok" -> "live_ok"
      [] live = "connect" -> "live_connect_error"
      [] live = "initializer" -> "live_initializer_error"
      [] OTHER -> "live_coding_error"

run_program_event(program) ==
    CASE program = "exit0" -> "run_program_exit0"
      [] program = "exit1" -> "run_program_exit1"
      [] OTHER -> "run_program_timeout"

verifier_event(success) == IF success THEN "verifier_true" ELSE "verifier_false"

\* the tail shared by the four simulation functions once the templates are
\* written: run the verifier, rewrite the ledger, make the final commit
verify_and_update(st, env, success) ==
    LET tested == Event(Event(Event(st, "emit_templates_ok"),
                              run_program_event(env.program)),
                        verifier_event(success))
        updated == write_feature_list(tested,
                       mark_features(create_comprehensive_feature_list(env.complexity),
                                     success))
    IN  Returns(Event(updated, "final_commit"), success)

\* AutonomousCodeGenerator._test_generated_program on an existing src/main.py
test_generated_program(program) == program = "exit0"

\* AutonomousCodeGenerator.simulate_autonomous_generation
simulate_autonomous_generation(st, env) ==
    IF env.emitter = "error"
    THEN Returns(Event(st, "emit_templates_error"), FALSE)
    ELSE verify_and_update(st, env, test_generated_program(env.program))

\* AutonomousCodeGenerator.run_with_claude_sdk
run_with_claude_sdk(st, env) ==
    Returns(Event(st, live_event(env.live)), env.live = "ok")

\* AutonomousCodeGenerator.generate_code from `if self.use_claude_sdk` on
claude_standalone_generation(st, env) ==
    IF st.self.use_claude_sdk
    THEN LET live == run_with_claude_sdk(st, env)
         IN  IF ~live.raised THEN live
             ELSE IF st.self.enable_simulation
             THEN simulate_autonomous_generation(live.st, env)
             ELSE Raises(live.st)
    ELSE IF st.self.enable_simulation
    THEN simulate_autonomous_generation(st, env)
    ELSE Raises(st)

\* ClaudeAutonomousGenerator._test_program_claude
test_program_claude(program) == program # "exit1"

\* ClaudeAutonomousGenerator._simulate_claude_generation
simulate_claude_generation(st, env) ==
    IF env.emitter = "error"
    THEN Raises(Event(st, "emit_templates_error"))
    ELSE verify_and_update(st, env, test_program_claude(env.program))

\* ClaudeAutonomousGenerator.run_autonomous_generation
claude_run_autonomous_generation(st, env) ==
    LET body ==
            IF st.self.use_claude_sdk
            THEN IF env.live = "ok"
                 THEN Returns(Event(st, live_event(env.live)), TRUE)
                 ELSE Raises(Event(st, live_event(env.live)))
            ELSE IF st.self.enable_simulation
            THEN simulate_claude_generation(st, env)
            ELSE Raises(st)
    IN  IF ~body.raised THEN body
        ELSE IF st.self.enable_simulation
        THEN simulate_claude_generation(body.st, env)
        ELSE Raises(body.st)

\* OpenCodeAutonomousGenerator.initialize_session; sid is the id of the
\* session that session.create() returns
initialize_session(st, env, sid) ==
    LET constructed == [st EXCEPT !.self.client = TRUE]
    IN  IF env.live = "connect"
        THEN Raises(Event(constructed, "session_create_error"))
        ELSE Returns(Event([constructed EXCEPT !.self.session_id = Some(sid)],
                           "session_created"),
                     TRUE)

\* the inner try block of run_autonomous_generation up to the end of the
\* coding agent's message
opencode_live_session(st, env, sid) ==
    LET init == initialize_session(st, env, sid)
    IN  IF init.raised THEN init
        ELSE IF env.live = "ok"
        THEN Returns(Event(init.st, live_event(env.live)), TRUE)
        ELSE Raises(Event(init.st, live_event(env.live)))

\* the point where the try statement is left and its finally clause begins
before_finally(r) ==
    [r EXCEPT !.st = Event(@, IF r.raised THEN "raising"
                              ELSE IF r.ret THEN "returning_true"
                              ELSE "returning_false")]

\* the finally clause without its try/except around the delete
cleanup_session_unguarded(r, env) ==
    IF r.st.self.client /\ r.st.self.session_id # None
    THEN IF env.delete = "ok"
         THEN [r EXCEPT !.st = Event(@, "session_delete_ok")]
         ELSE Raises(Event(r.st, "session_delete_error"))
    ELSE r

\* the finally clause of run_autonomous_generation (both OpenCode classes)
cleanup_session(r, env) ==
    IF r.st.self.client /\ r.st.self.session_id # None
    THEN [r EXCEPT !.st = Event(@, IF env.delete = "ok"
                                   THEN "session_delete_ok"
                                   ELSE "session_delete_error")]
    ELSE r

\* unified OpenCodeAutonomousGenerator._test_program_opencode
test_program_opencode(program) == program # "exit1"

\* unified OpenCodeAutonomousGenerator._simulate_opencode_generation
simulate_opencode_generation_unified(st, env) ==
    IF env.emitter = "error"
    THEN Raises(Event(st, "emit_templates_error"))
    ELSE verify_and_update(st, env, test_program_opencode(env.program))

\* unified OpenCodeAutonomousGenerator.run_autonomous_generation
opencode_run_autonomous_generation(st, env, sid) ==
    LET live == opencode_live_session(st, env, sid)
        inner == IF ~live.raised THEN live
                 ELSE IF st.self.enable_simulation
                 THEN simulate_opencode_generation_unified(live.st, env)
                 ELSE Raises(live.st)
        outer == IF ~inner.raised THEN inner
                 ELSE IF st.self.enable_simulation
                 THEN simulate_opencode_generation_unified(inner.st, env)
                 ELSE Raises(inner.st)
    IN  cleanup_session(before_finally(outer), env)

\* standalone OpenCodeAutonomousGenerator._test_generated_program_opencode
test_generated_program_opencode(program) == program = "exit0"

\* standalone OpenCodeAutonomousGenerator.simulate_opencode_generation
simulate_opencode_generation(st, env) ==
    IF env.emitter = "error"
    THEN Returns(Event(st, "emit_templates_error"), FALSE)
    ELSE verify_and_update(st, env, test_generated_program_opencode(env.program))

\* standalone OpenCodeAutonomousGenerator._verify_generation_results
verify_generation_results(st, env) ==
    IF ~env.main_file
    THEN Returns(Event(st, "verify_results_missing_file"), FALSE)
    ELSE Returns(Event(st, "verify_results_ran_program"), TRUE)

\* standalone OpenCodeAutonomousGenerator.run_autonomous_generation
opencode_standalone_run_autonomous_generation(st, env, sid) ==
    LET listed == write_feature_list(st,
                      create_comprehensive_feature_list(env.complexity))
        live == opencode_live_session(listed, env, sid)
        body == IF ~live.raised THEN verify_generation_results(live.st, env)
                ELSE IF st.self.enable_simulation
                THEN simulate_opencode_generation(live.st, env)
                ELSE Raises(live.st)
        outer == IF body.raised THEN Returns(body.st, FALSE) ELSE body
    IN  cleanup_session(before_finally(outer), env)

\* generate_code of the class of st.self: the tuple it returns and the state
\* it leaves
generate_code(st, env, sid) ==
    LET listed == write_feature_list(st,
                      create_comprehensive_feature_list(env.complexity))
        run == CASE st.self.variant = "claude_standalone" ->
                        claude_standalone_generation(listed, env)
                 [] st.self.variant = "claude_unified" ->
                        claude_run_autonomous_generation(listed, env)
                 [] st.self.variant = "opencode_unified" ->
                        opencode_run_autonomous_generation(listed, env, sid)
                 [] OTHER ->
                        opencode_standalone_run_autonomous_generation(st, env, sid)
    IN  [st |-> run.st,
         ret |-> IF run.raised
                 THEN [project_dir |-> None, success |-> FALSE]
                 ELSE [project_dir |-> Some(ProjectDir), success |-> run.ret]]

ClaudeVariants == {"claude_standalone", "claude_unified"}
OpenCodeVariants == {"opencode_unified", "opencode_standalone"}

\* the objects the constructors build: a Claude generator needs the API key
\* or simulation; an OpenCode generator starts without client and session
Generators ==
    {g \in [variant : ClaudeVariants, use_claude_sdk : BOOLEAN,
            enable_simulation : BOOLEAN] :
        g.use_claude_sdk \/ g.enable_simulation}
    \cup [variant : OpenCodeVariants, enable_simulation : BOOLEAN,
          client : {FALSE}, session_id : {None}]

GenInit ==
    /\ sdk_available = FrameworkSet
    /\ generators = FrameworkSet
    /\ primary = "claude"
    /\ current_framework = "claude"
    /\ metrics_history = [f \in FrameworkSet |-> <<>>]
    /\ switching_history = <<>>
    /\ now = 0
    /\ pc = "generator"
    /\ framework = ""
    /\ frameworks_tried = <<>>
    /\ attempt = 0
    /\ result = None
    /\ calls = 0
    /\ exec_log = <<>>
    /\ attempts_log = [f \in FrameworkSet |-> <<>>]
    /\ det_in = None
    /\ det_out = None
    /\ generator \in {Some(g) : g \in Generators}
    /\ feature_list = None
    /\ gen_result = None
    /\ gen_trace = <<>>
    /\ ledger_writes = <<>>

\* what one call did with the sessions of the OpenCode server: the id of the
\* session that session.create() returned and the id given to session.delete()
session_record(st, sid) ==
    [created |-> IF InSeq("session_created", st.trace) THEN Some(sid) ELSE None,
     deleted |-> IF InSeq("session_delete_ok", st.trace)
                    \/ InSeq("session_delete_error", st.trace)
                 THEN st.self.session_id
                 ELSE None]

\* one call of generate_code on the generator object
generate_code_call ==
    /\ pc = "generator"
    /\ calls < MaxGenCalls
    /\ \E env \in GenEnvironments :
        LET out == generate_code([self |-> generator[1],
                                  feature_list |-> feature_list,
                                  trace |-> <<>>,
                                  writes |-> <<>>],
                                 env, calls + 1)
        IN  /\ generator' = Some(out.st.self)
            /\ feature_list' = out.st.feature_list
            /\ gen_trace' = out.st.trace
            /\ ledger_writes' = out.st.writes
            /\ gen_result' = Some(out.ret)
            /\ exec_log' = Append(exec_log, session_record(out.st, calls + 1))
    /\ calls' = calls + 1
    /\ UNCHANGED <<sdk_available, primary, generators, current_framework,
                   metrics_history, switching_history, now, pc, framework,
                   frameworks_tried, attempt, result, attempts_log,
                   det_vars>>

GenNext == generate_code_call

SpecGen == GenInit /\ [][GenNext]_vars

---------------------------------------------------------------------------
(* utils/api_checker.py APIChecker.wait_for_api_recovery, one call.         *)
(*                                                                          *)
(* `now` is time.time(), counted in ticks of the clock; det_in holds the    *)
(* arguments and start_time, exec_log the result of every probe of the      *)
(* call, result the value returned.  check_provider_health catches every    *)
(* Exception and its request has a total timeout, so a probe returns an     *)
(* APIHealthResult after at least one and at most MaxProbe ticks;           *)
(* asyncio.sleep(check_interval) takes check_interval ticks.                *)

\* largest max_wait of the calls examined
MaxWait == 5

\* longest time one probe takes (APIChecker.timeout)
MaxProbe == 2

WaitArgs ==
    [max_wait : {0, 1, MaxWait}, check_interval : {0, 1, 3}]

\* the loop condition with the comparison reversed
deadline_open_reversed(t, args) == t - args.start_time > args.max_wait

\* line 188: time.time() - start_time < max_wait
deadline_open(t, args) == t - args.start_time < args.max_wait

WaitInit ==
    /\ sdk_available = FrameworkSet
    /\ generators = FrameworkSet
    /\ primary = "claude"
    /\ current_framework = "claude"
    /\ metrics_history = [f \in FrameworkSet |-> <<>>]
    /\ switching_history = <<>>
    /\ now \in {0, 1}
    /\ pc = "wait_test"
    /\ framework = ""
    /\ frameworks_tried = <<>>
    /\ attempt = 0
    /\ result = None
    /\ calls = 0
    /\ exec_log = <<>>
    /\ attempts_log = [f \in FrameworkSet |-> <<>>]
    /\ det_in \in {Some([max_wait |-> a.max_wait,
                          check_interval |-> a.check_interval,
                          start_time |-> now]) : a \in WaitArgs}
    /\ det_out = None
    /\ NoGenerator

\* line 188, the test of the while loop, and lines 199-200 when it fails
wait_for_api_recovery_test ==
    /\ pc = "wait_test"
    /\ IF deadline_open(now, det_in[1])
       THEN /\ pc' = "wait_probe"
            /\ UNCHANGED result
       ELSE /\ pc' = "wait_done"
            /\ result' = Some(FALSE)
    /\ UNCHANGED <<sdk_available, primary, generators, current_framework,
                   metrics_history, switching_history, now, framework,
                   frameworks_tried, attempt, calls, exec_log, attempts_log,
                   det_vars, gen_vars>>

\* lines 189-194: await check_provider_health(provider), return True if it
\* reports available
wait_for_api_recovery_probe ==
    /\ pc = "wait_probe"
    /\ \E available \in BOOLEAN, d \in 1..MaxProbe :
        /\ now' = now + d
        /\ exec_log' = Append(exec_log, [available |-> available, at |-> now + d])
        /\ IF available
           THEN /\ pc' = "wait_done"
                /\ result' = Some(TRUE)
           ELSE /\ pc' = "wait_sleep"
                /\ UNCHANGED result
    /\ calls' = calls + 1
    /\ UNCHANGED <<sdk_available, primary, generators, current_framework,
                   metrics_history, switching_history, framework,
                   frameworks_tried, attempt, attempts_log, det_vars, gen_vars>>

\* line 197: await asyncio.sleep(check_interval)
wait_for_api_recovery_sleep ==
    /\ pc = "wait_sleep"
    /\ now' = now + det_in[1].check_interval
    /\ pc' = "wait_test"
    /\ UNCHANGED <<sdk_available, primary, generators, current_framework,
                   metrics_history, switching_history, framework,
                   frameworks_tried, attempt, result, calls, exec_log,
                   attempts_log, det_vars, gen_vars>>

WaitNext ==
    \/ wait_for_api_recovery_test
    \/ wait_for_api_recovery_probe
    \/ wait_for_api_recovery_sleep

\* the event loop keeps running the coroutine
SpecWait == WaitInit /\ [][WaitNext]_vars /\ WF_vars(WaitNext)

---------------------------------------------------------------------------
(* parse_task_description of the three generator modules.                   *)
(*                                                                          *)
(* A task description is the set of the keywords that occur in              *)
(* task.lower() as substrings; a description that holds "javascript" holds   *)
(* "java", one that holds "website" holds "web", one that holds "python"     *)
(* holds "py", and the keywords are independent otherwise.                   *)

\* number of keywords written into a task description
MaxWords == 2

Keywords ==
    {"javascript", "js", "node", "java", "c++", "cpp", "python", "py",
     "web", "app", "website", "server", "api",
     "cli", "command", "tool", "utility",
     "library", "package", "module", "framework",
     "gui", "interface", "window", "database", "db", "sql",
     "rest", "endpoint", "test"}

\* the keywords found in a text in which the words of `written` occur
substrings_of(written) ==
    written
      \cup (IF "javascript" \in written THEN {"java"} ELSE {})
      \cup (IF "website" \in written THEN {"web"} ELSE {})
      \cup (IF "python" \in written THEN {"py"} ELSE {})

TaskTexts ==
    {substrings_of({f[i] : i \in 1..MaxWords} \ {""}) :
        f \in [1..MaxWords -> Keywords \cup {""}]}

\* any(word in task_lower for word in words)
any_in(words, task_lower) == words \cap task_lower # {}

\* _estimate_file_count, the same in the three modules
estimate_file_count(complexity, features) ==
    (CASE complexity = "simple" -> 1
       [] complexity = "cli" -> 2
       [] complexity = "library" -> 3
       [] complexity = "web" -> 5
       [] OTHER -> 1) + Len(features)

\* the complexity chain; library_words is the word list of its last branch
detect_complexity(task_lower, library_words) ==
    IF any_in({"web", "app", "website", "server", "api"}, task_lower) THEN "web"
    ELSE IF any_in({"cli", "command", "tool", "utility"}, task_lower) THEN "cli"
    ELSE IF any_in(library_words, task_lower) THEN "library"
    ELSE "simple"

\* the four feature tests, appended in source order
detect_features(task_lower, gui_words, database_words, api_words) ==
    (IF any_in(gui_words, task_lower) THEN <<"gui">> ELSE <<>>)
      \o (IF any_in(database_words, task_lower) THEN <<"database">> ELSE <<>>)
      \o (IF any_in(api_words, task_lower) THEN <<"api">> ELSE <<>>)
      \o (IF "test" \in task_lower THEN <<"testing">> ELSE <<>>)

task_analysis(task, language, complexity, features) ==
    [language |-> language,
     complexity |-> complexity,
     features |-> features,
     description |-> task,
     estimated_files |-> estimate_file_count(complexity, features)]

\* autonomous_code_generator.AutonomousCodeGenerator.parse_task_description
parse_task_description_claude(task) ==
    LET language ==
            IF any_in({"javascript", "js", "node"}, task) THEN "javascript"
            ELSE IF "java" \in task /\ "javascript" \notin task THEN "java"
            ELSE IF any_in({"c++", "cpp"}, task) THEN "cpp"
            ELSE "python"
        complexity ==
            detect_complexity(task, {"library", "package", "module", "framework"})
        features ==
            detect_features(task, {"gui", "interface"}, {"database", "db"},
                            {"api", "rest"})
    IN  task_analysis(task, language, complexity, features)

\* opencode_autonomous_generator.OpenCodeAutonomousGenerator.parse_task_description
parse_task_description_opencode(task) ==
    LET language ==
            IF any_in({"javascript", "js", "node"}, task) THEN "javascript"
            ELSE IF "java" \in task /\ "javascript" \notin task THEN "java"
            ELSE "python"
        complexity == detect_complexity(task, {"library", "package", "module"})
        features ==
            detect_features(task, {"gui", "interface", "window"},
                            {"database", "db", "sql"}, {"api", "rest", "endpoint"})
    IN  task_analysis(task, language, complexity, features)

\* unified_autonomous_generator.BaseAutonomousGenerator.parse_task_description
parse_task_description_unified(task) ==
    LET language ==
            IF any_in({"javascript", "js", "node"}, task) THEN "javascript"
            ELSE IF "java" \in task /\ "javascript" \notin task THEN "java"
            ELSE "python"
        complexity == detect_complexity(task, {"library", "package", "module"})
        features ==
            detect_features(task, {"gui", "interface", "window"},
                            {"database", "db", "sql"}, {"api", "rest", "endpoint"})
    IN  task_analysis(task, language, complexity, features)

ParseInit ==
    /\ sdk_available = FrameworkSet
    /\ generators = FrameworkSet
    /\ primary = "claude"
    /\ current_framework = "claude"
    /\ metrics_history = [f \in FrameworkSet |-> <<>>]
    /\ switching_history = <<>>
    /\ now = 0
    /\ pc = "parser"
    /\ framework = ""
    /\ frameworks_tried = <<>>
    /\ attempt = 0
    /\ result = None
    /\ calls = 0
    /\ exec_log = <<>>
    /\ attempts_log = [f \in FrameworkSet |-> <<>>]
    /\ det_in \in {Some([task |-> t]) : t \in TaskTexts}
    /\ det_out = None
    /\ NoGenerator

\* the same task description given to the three parse_task_description
parse_task_description_call ==
    /\ pc = "parser"
    /\ det_out = None
    /\ det_out' = Some([claude |-> parse_task_description_claude(det_in[1].task),
                        opencode |-> parse_task_description_opencode(det_in[1].task),
                        unified |-> parse_task_description_unified(det_in[1].task)])
    /\ UNCHANGED <<orch_vars, metrics_history, now, attempts_log, det_in, gen_vars>>

ParseNext == parse_task_description_call

SpecParse == ParseInit /\ [][ParseNext]_vars

---------------------------------------------------------------------------
(* The command-line front ends: main of autonomous_code_generator.py and    *)
(* main of intelligent_fallback_generator.py, after argparse accepted the   *)
(* command line (-l and -p given, no --health-report).                      *)
(*                                                                          *)
(* An invocation is the record inv: the front end, the input mode, whether  *)
(* ANTHROPIC_API_KEY is set, --enable-simulation, how reading the           *)
(* instruction file goes, whether the orchestrator can build an adapter,    *)
(* and how the generation goes.  The outcome is the value main returns      *)
(* (None if it does not return), the exception that leaves main (None if    *)
(* none does) and the message main printed.                                 *)

FrontEnds == {"claude", "fallback"}

Invocations ==
    [cli : FrontEnds,
     mode : {"task", "file"},
     api_key : BOOLEAN,
     enable_simulation : BOOLEAN,
     file : {"ok", "missing", "empty"},
     adapters : {"some", "none"},
     generation : {"success", "failed", "raise"}]

MainReturns(code, message) ==
    [exit |-> Some(code), escaped |-> None, message |-> message]

MainPropagates(exception) ==
    [exit |-> None, escaped |-> Some(exception), message |-> ""]

\* AutonomousCodeGenerator.__init__: TRUE if it raises ValueError
autonomous_code_generator_init_raises(api_key, enable_simulation) ==
    ~enable_simulation /\ ~api_key

\* read_instruction_file: TRUE if it raises (FileError in the Claude module)
read_instruction_file_raises(file) == file # "ok"

\* the try block of both mains from the generation call to its returns
main_generation(generation) ==
    CASE generation = "success" -> MainReturns(0, "SUCCESS")
      [] generation = "failed" -> MainReturns(1, "Code generation failed or incomplete")
      [] OTHER -> MainReturns(1, "Unexpected error")

\* autonomous_code_generator.main
main_claude(inv) ==
    IF inv.mode = "file"
          /\ autonomous_code_generator_init_raises(inv.api_key, FALSE)
    THEN MainPropagates("ValueError")
    ELSE IF inv.mode = "file" /\ read_instruction_file_raises(inv.file)
    THEN MainReturns(1, "FileError")
    ELSE IF autonomous_code_generator_init_raises(inv.api_key, inv.enable_simulation)
    THEN MainReturns(1, "Unexpected error")
    ELSE main_generation(inv.generation)

\* intelligent_fallback_generator.main
main_fallback(inv) ==
    IF inv.adapters = "none"
    THEN MainReturns(1, "Unexpected error")
    ELSE IF inv.mode = "file" /\ read_instruction_file_raises(inv.file)
    THEN MainReturns(1, "Unexpected error")
    ELSE main_generation(inv.generation)

main(inv) == IF inv.cli = "claude" THEN main_claude(inv) ELSE main_fallback(inv)

CliInit ==
    /\ sdk_available = FrameworkSet
    /\ generators = FrameworkSet
    /\ primary = "claude"
    /\ current_framework = "claude"
    /\ metrics_history = [f \in FrameworkSet |-> <<>>]
    /\ switching_history = <<>>
    /\ now = 0
    /\ pc = "cli"
    /\ framework = ""
    /\ frameworks_tried = <<>>
    /\ attempt = 0
    /\ result = None
    /\ calls = 0
    /\ exec_log = <<>>
    /\ attempts_log = [f \in FrameworkSet |-> <<>>]
    /\ det_in \in {Some(inv) : inv \in Invocations}
    /\ det_out = None
    /\ NoGenerator

\* one run of a front end's main
main_call ==
    /\ pc = "cli"
    /\ det_out = None
    /\ det_out' = Some(main(det_in[1]))
    /\ UNCHANGED <<orch_vars, metrics_history, now, attempts_log, det_in, gen_vars>>

CliNext == main_call

SpecCli == CliInit /\ [][CliNext]_vars

---------------------------------------------------------------------------
(* Properties *)

Last(s) == s[Len(s)]

NoDuplicates(s) == \A i, j \in DOMAIN s : i # j => s[i] # s[j]

SuccessResult(tried) ==
    Some([project_dir |-> Some(ProjectDir), success |-> TRUE,
          frameworks_tried |-> tried])

HysteresisRefusal == <<FALSE, "", Reason("Recent switch hysteresis", NoArg)>>

\* the switch was approved by the Switching Engine after attempt i of the call
Approved(i) == exec_log[i].decision # None /\ exec_log[i].decision[1][1]

\* C1 as stated: with both adapters available, when the framework tried first
\* raised on every attempt and the alternate never failed, the call returns
\* (project_dir, True, [first, second]).
C1_FallbackAlways ==
    (/\ pc = "returned"
     /\ generators = FrameworkSet
     /\ exec_log # <<>>
     /\ \A i \in DOMAIN exec_log :
           IF exec_log[i].framework = exec_log[1].framework
           THEN exec_log[i].outcome = "raise"
           ELSE exec_log[i].outcome = "ok")
    => result = SuccessResult(<<exec_log[1].framework,
                                other_framework_of(exec_log[1].framework)>>)

\* C1 amended: with both adapters available, when the first adapter raised and
\* the Switching Engine approved the switch on the resulting metrics, the
\* alternate is attempted in the same call, and when it succeeds the call
\* returns (project_dir, True, [first, second]).
C1_FallbackWhenApproved ==
    (/\ pc = "returned"
     /\ generators = FrameworkSet
     /\ exec_log # <<>>
     /\ exec_log[1].outcome = "raise"
     /\ Approved(1))
    => /\ Len(exec_log) = 2
       /\ exec_log[2].framework # exec_log[1].framework
       /\ exec_log[2].outcome = "ok"
            => result = SuccessResult(<<exec_log[1].framework, exec_log[2].framework>>)

C1_Witness ==
    /\ pc = "returned"
    /\ generators = FrameworkSet
    /\ Len(exec_log) = 2
    /\ exec_log[1].outcome = "raise"
    /\ Approved(1)
    /\ exec_log[2].outcome = "ok"
    /\ result = SuccessResult(<<exec_log[1].framework, exec_log[2].framework>>)

\* metrics the hysteresis claim is tried on: healthy ones and ones that trigger
\* a switch through each of the Failure Detector's conditions
ProbeMetrics ==
    [framework : {"claude"},
     timestamp : {0},
     response_time : {0, 300},
     success_rate : {[num |-> 0, den |-> 1], [num |-> 1, den |-> 1]},
     error_count : {0},
     last_error : {None},
     consecutive_failures : {0, 3},
     api_available : BOOLEAN,
     tasks_completed : {0},
     total_tasks : {1}]

ProbeFallbacks == {None} \cup {Some(m) : m \in {p \in ProbeMetrics : p.consecutive_failures = 0}}

\* C2: while the last SwitchingEvent is less than 300 seconds old,
\* should_switch_framework answers (False, "", "Recent switch hysteresis") for
\* every current framework, current metrics and fallback metrics.
C2_Hysteresis ==
    (/\ switching_history # <<>>
     /\ now - Last(switching_history).timestamp < 300)
    => \A cur \in FrameworkSet, m \in ProbeMetrics, fb \in ProbeFallbacks :
          should_switch_framework(switching_history, now, cur, m, fb,
                                  default_detector) = HysteresisRefusal

\* a decision of a real call was refused for hysteresis although its metrics
\* trigger the Failure Detector, and some probe would be approved without it
C2_Witness ==
    /\ switching_history # <<>>
    /\ now - Last(switching_history).timestamp < 300
    /\ \E i \in DOMAIN exec_log :
          /\ exec_log[i].decision = Some(HysteresisRefusal)
          /\ should_trigger_switch(exec_log[i].metrics, default_detector)[1]
    /\ \E m \in ProbeMetrics :
          should_switch_framework(<<>>, now, "claude", m, None, default_detector)[1]

\* C3: any two SwitchingEvents of the switching history are at least 300
\* seconds apart.
C3_SwitchesApart ==
    \A i, j \in DOMAIN switching_history :
        i < j => switching_history[j].timestamp
                    - switching_history[i].timestamp >= 300

\* two switches were recorded, the second one back to the first framework
C3_Witness ==
    /\ Len(switching_history) >= 2
    /\ switching_history[2].to_framework = switching_history[1].from_framework

\* C4: a point with api_available = False makes should_trigger_switch return
\* (True, "API unavailable"), whatever the other fields and the thresholds.
C4_ApiUnavailable ==
    (det_out # None /\ ~det_in[1].metrics.api_available)
    => det_out[1].trigger = <<TRUE, [text |-> "API unavailable", arg |-> NoArg]>>

\* the point is unavailable and also meets the consecutive-failure threshold
C4_Witness ==
    /\ det_out # None
    /\ ~det_in[1].metrics.api_available
    /\ det_in[1].metrics.consecutive_failures
          >= det_in[1].detector.consecutive_failure_threshold
    /\ det_out[1].trigger[1]

\* C5: a point with api_available = True and consecutive_failures at or above
\* the threshold makes should_trigger_switch return True with the reason
\* "Consecutive failures exceeded threshold (<n>)".
C5_ConsecutiveFailures ==
    (/\ det_out # None
     /\ det_in[1].metrics.api_available
     /\ det_in[1].metrics.consecutive_failures
           >= det_in[1].detector.consecutive_failure_threshold)
    => /\ det_out[1].trigger[1] = TRUE
       /\ det_out[1].trigger[2].text = "Consecutive failures exceeded threshold"
       /\ det_out[1].trigger[2].arg = det_in[1].metrics.consecutive_failures

\* exactly at the default threshold, on a point that is otherwise healthy
C5_Witness ==
    /\ det_out # None
    /\ det_in[1].metrics.api_available
    /\ det_in[1].detector.consecutive_failure_threshold = 3
    /\ det_in[1].metrics.consecutive_failures = 3
    /\ det_in[1].metrics.success_rate.num = det_in[1].metrics.success_rate.den
    /\ det_out[1].trigger[1]

\* C6: the last point of a framework's window carries the number of attempts
\* that failed since that framework's last success (0 after a success).
RECURSIVE TrailingFailures(_)
TrailingFailures(log) ==
    IF log = <<>> THEN 0
    ELSE IF Last(log).success THEN 0
    ELSE 1 + TrailingFailures(SubSeq(log, 1, Len(log) - 1))

C6_ConsecutiveFailuresCount ==
    \A f \in FrameworkSet :
        metrics_history[f] # <<>> =>
            Last(metrics_history[f]).consecutive_failures
                = TrailingFailures(attempts_log[f])

\* C7: health_score lies in [0, 1], and is 0 when api_available is False.
C7_HealthScoreRange ==
    det_out # None =>
        /\ det_out[1].health_score.num >= 0
        /\ det_out[1].health_score.num <= det_out[1].health_score.den
        /\ ~det_in[1].metrics.api_available => det_out[1].health_score.num = 0

\* every raw value is out of its range on an available point
C7_Witness ==
    /\ det_out # None
    /\ det_in[1].metrics.api_available
    /\ det_in[1].metrics.response_time > 60
    /\ det_in[1].metrics.error_count > 10
    /\ det_in[1].metrics.consecutive_failures > 5
    /\ det_out[1].health_score.num >= 0

\* C8: an exception of an adapter never leaves generate_code_with_fallback; the
\* attempt adds one failed point for its framework, with the message as
\* last_error, and that point is the one given to the Switching Engine.
C8_ErrorsBecomeDecisionInput ==
    /\ pc # "raised"
    /\ \A f \in FrameworkSet : Len(metrics_history[f]) = Len(attempts_log[f])
    /\ \A i \in DOMAIN exec_log :
          exec_log[i].outcome = "raise" =>
              LET e == exec_log[i]
              IN  /\ e.metrics.framework = e.framework
                  /\ e.metrics.last_error = Some(ErrorMessage)
                  /\ e.metrics.consecutive_failures >= 1
                  /\ Last(metrics_history[e.framework]) = e.metrics
                  /\ Last(attempts_log[e.framework])
                        = [success |-> FALSE, error |-> Some(ErrorMessage)]
                  /\ e.decision # None
                  /\ e.switched =>
                        \E k \in DOMAIN switching_history :
                            /\ switching_history[k].trigger_metrics = e.metrics
                            /\ switching_history[k].from_framework = e.framework

\* a raise was recorded and the Switching Engine approved a switch on it
C8_Witness ==
    \E i \in DOMAIN exec_log :
        /\ exec_log[i].outcome = "raise"
        /\ exec_log[i].switched
        /\ pc = "returned"

\* C9: a call invokes at most two adapters, never the same framework twice,
\* and returns (None, False, frameworks_tried) exactly when no invocation
\* succeeded.
C9_AtMostTwoAttempts ==
    /\ Len(exec_log) <= 2
    /\ Len(frameworks_tried) <= 2
    /\ NoDuplicates(frameworks_tried)
    /\ frameworks_tried = [i \in DOMAIN exec_log |-> exec_log[i].framework]
    /\ pc = "returned" =>
          /\ result # None
          /\ result[1].frameworks_tried = frameworks_tried
          /\ (result = FailureResult(frameworks_tried))
                <=> (\A i \in DOMAIN exec_log : exec_log[i].outcome # "ok")
          /\ (result = SuccessResult(frameworks_tried))
                <=> (\E i \in DOMAIN exec_log : exec_log[i].outcome = "ok")

\* both attempts of one call failed, the second after an approved switch and
\* with a further switch approved
C9_Witness ==
    /\ pc = "returned"
    /\ Len(exec_log) = 2
    /\ exec_log[2].switched
    /\ result = FailureResult(frameworks_tried)

\* C10: a call that finds current_framework without an adapter makes another
\* available adapter current and attempts it; it returns (None, False, [])
\* without an attempt only when there is no other adapter.
C10_UnavailableCurrent ==
    /\ [][(pc = "idle" /\ pc' # "idle" /\ current_framework \notin generators)
            => IF generators \ {current_framework} # {}
               THEN /\ pc' = "loop"
                    /\ current_framework' \in generators
                    /\ framework' = current_framework'
               ELSE /\ pc' = "returned"
                    /\ result' = FailureResult(<<>>)]_vars
    /\ [](/\ \A i \in DOMAIN exec_log : exec_log[i].framework \in generators
          /\ (pc = "returned" /\ exec_log = <<>>)
                => /\ result = FailureResult(<<>>)
                   /\ generators \ {current_framework} = {})

\* the configured primary has no adapter and another framework was attempted
C10_Witness ==
    /\ primary \notin generators
    /\ calls = 1
    /\ Len(exec_log) = 1
    /\ exec_log[1].framework \in generators
    /\ current_framework = exec_log[1].framework

Min(a, b) == IF a <= b THEN a ELSE b

\* the last n elements of s
LastN(s, n) == SubSeq(s, Len(s) - n + 1, Len(s))

\* C16: after n record_switch calls the switching history holds min(n, 50)
\* events, and they are the most recent events in recording order: on
\* overflow exactly the oldest one is gone.
C16_SwitchingHistoryCap ==
    /\ Len(exec_log) = calls
    /\ Len(switching_history) = Min(calls, 50)
    /\ switching_history = LastN(exec_log, Min(calls, 50))

\* more than 50 events were recorded and the first of them is no longer held
C16_Witness ==
    /\ pc = "history"
    /\ calls > 50
    /\ Len(switching_history) = 50
    /\ switching_history[1] = exec_log[calls - 49]
    /\ switching_history[1] # exec_log[1]

\* C17: every framework's window holds the points of its most recent
\* update_metrics calls, at most window_size of them, in call order; one call
\* appends one point to the named framework's window, drops the oldest point
\* of a full window, and leaves the other windows as they were.
C17_MetricsWindow ==
    /\ [](\A f \in FrameworkSet :
            LET w == metrics_history[f]
                n == Len(attempts_log[f])
            IN  /\ Len(w) = Min(n, MonWindow)
                /\ \A i \in DOMAIN w :
                      /\ w[i].framework = f
                      /\ w[i].last_error = attempts_log[f][n - Len(w) + i].error)
    /\ [][\E f \in FrameworkSet :
            /\ Len(attempts_log'[f]) = Len(attempts_log[f]) + 1
            /\ LET w == metrics_history[f]
                   w2 == metrics_history'[f]
               IN  /\ w2 # <<>>
                   /\ SubSeq(w2, 1, Len(w2) - 1)
                         = (IF Len(w) >= MonWindow THEN Tail(w) ELSE w)
            /\ \A g \in FrameworkSet \ {f} :
                  /\ metrics_history'[g] = metrics_history[g]
                  /\ attempts_log'[g] = attempts_log[g]]_vars

\* a full window has dropped a point while the other framework's window
\* holds a point of its own
C17_Witness ==
    /\ pc = "monitor"
    /\ Len(attempts_log["claude"]) > MonWindow
    /\ Len(metrics_history["claude"]) = MonWindow
    /\ Len(metrics_history["opencode"]) = 1

\* the critical categories with a pattern in the match set
MatchingCritical(content) ==
    {CRITICAL_PATTERNS[i].category : i \in
        {j \in DOMAIN CRITICAL_PATTERNS :
            Range(CRITICAL_PATTERNS[j].patterns) \cap content # {}}}

\* C18: a text matching a pattern of a critical category is classified
\* has_errors, severity "critical", confidence 0.9, with the type of a matching
\* critical category, for every framework argument and every further match.
C18_CriticalFamily ==
    (pc = "classifier" /\ det_out # None) =>
        LET content == det_in[1].content
            r == det_out[1].log_analyzer
        IN  MatchingCritical(content) # {} =>
                /\ r.has_errors
                /\ r.severity = "critical"
                /\ r.confidence = 9
                /\ r.confidence > 8
                /\ r.error_type # None
                /\ r.error_type[1] \in MatchingCritical(content)

\* "ERROR: API key is invalid or expired" together with a failed Claude
\* session, analysed for claude
C18_Witness ==
    /\ pc = "classifier"
    /\ det_in = Some([content |-> {"API key.*invalid", "claude.*session.*failed"},
                      framework |-> Some("claude")])
    /\ det_out # None
    /\ det_out[1].log_analyzer.error_type = Some("authentication")
    /\ det_out[1].log_analyzer.severity = "critical"

\* C19: with framework claude or opencode and a match among that framework's
\* patterns the result has has_errors, every matched framework pattern in
\* error_patterns, severity at least "high", confidence at least 0.8, and the
\* type "<framework>_specific" unless a critical category set one; without a
\* framework argument the framework patterns have no effect on the result.
C19_FrameworkFamily ==
    (pc = "classifier" /\ det_out # None) =>
        LET content == det_in[1].content
            fw == det_in[1].framework
            r == det_out[1].log_analyzer
        IN  /\ (fw \in {Some("claude"), Some("opencode")}
                /\ Range(FRAMEWORK_PATTERNS[fw[1]]) \cap content # {})
               => /\ r.has_errors
                  /\ Range(FRAMEWORK_PATTERNS[fw[1]]) \cap content
                        \subseteq Range(r.error_patterns)
                  /\ severity_weight(r.severity) >= severity_weight("high")
                  /\ r.confidence >= 8
                  /\ IF MatchingCritical(content) = {}
                     THEN r.error_type = Some(framework_specific_type(fw[1]))
                     ELSE r.error_type[1] \in MatchingCritical(content)
            /\ fw = None
               => /\ Range(r.error_patterns) \cap FrameworkPatternSet = {}
                  /\ r = analyze_log_content(content \ FrameworkPatternSet, None)

\* "ERROR: Claude session failed to initialize" analysed for claude
C19_Witness ==
    /\ pc = "classifier"
    /\ det_in = Some([content |-> {"claude.*session.*failed"},
                      framework |-> Some("claude")])
    /\ det_out # None
    /\ det_out[1].log_analyzer.error_type = Some("claude_specific")
    /\ det_out[1].log_analyzer.error_patterns = <<"claude.*session.*failed">>

\* C20: a text matching no pattern of a classifier gets has_errors false, no
\* error_type, no error_patterns and severity "low" from it, and a
\* classifier reports has_errors only with a matched pattern of its own.
C20_ClassificationNoMatch ==
    (pc = "classifier" /\ det_out # None) =>
        LET content == det_in[1].content
            la == det_out[1].log_analyzer
            fd == det_out[1].failure_detector
        IN  /\ content \cap LogAnalyzerPatternSet = {}
               => /\ ~la.has_errors
                  /\ la.error_type = None
                  /\ la.error_patterns = <<>>
                  /\ la.severity = "low"
            /\ content \cap FailureDetectorPatternSet = {}
               => /\ ~fd.has_errors
                  /\ fd.error_type = None
                  /\ fd.error_patterns = <<>>
                  /\ fd.severity = "low"
            /\ la.has_errors
               => /\ la.error_patterns # <<>>
                  /\ Range(la.error_patterns) \subseteq content \cap LogAnalyzerPatternSet
            /\ fd.has_errors
               => /\ fd.error_patterns # <<>>
                  /\ Range(fd.error_patterns) \subseteq content \cap FailureDetectorPatternSet

\* a text without any match, analysed for claude by both classifiers
C20_Witness ==
    /\ pc = "classifier"
    /\ det_in = Some([content |-> {}, framework |-> Some("claude")])
    /\ det_out # None
    /\ ~det_out[1].log_analyzer.has_errors
    /\ ~det_out[1].failure_detector.has_errors

\* a generate_code call on the observed generator has returned
Called == pc = "generator" /\ gen_result # None

InTrace(e) == \E i \in DOMAIN gen_trace : gen_trace[i] = e

\* the positions of event e in the trace of the call
Positions(e) == {i \in DOMAIN gen_trace : gen_trace[i] = e}

VerifierRan == InTrace("verifier_true") \/ InTrace("verifier_false")

LiveFailed ==
    \/ InTrace("live_connect_error")
    \/ InTrace("live_initializer_error")
    \/ InTrace("live_coding_error")

Simulated == InTrace("emit_templates_ok") \/ InTrace("emit_templates_error")

\* C11: the first thing a call does is write the ledger with every passes
\* false; a simulation that runs to its end rewrites it exactly once, after
\* the verifier, giving high-priority records the verifier's result and the
\* other records true, with the same records in the same order.
C11_FeatureLedgerLifecycle ==
    Called =>
        /\ gen_trace[1] = "write_feature_list"
        /\ \A i \in DOMAIN ledger_writes[1] : ledger_writes[1][i].passes = FALSE
        /\ InTrace("emit_templates_ok") =>
              /\ Len(ledger_writes) = 2
              /\ Cardinality(Positions("write_feature_list")) = 2
              /\ \E v \in Positions("verifier_true") \cup Positions("verifier_false"),
                    w \in Positions("write_feature_list"),
                    c \in Positions("final_commit") : v < w /\ w < c
              /\ feature_list = Some(ledger_writes[2])
              /\ DOMAIN ledger_writes[2] = DOMAIN ledger_writes[1]
              /\ \A i \in DOMAIN ledger_writes[2] :
                    /\ ledger_writes[2][i].feature = ledger_writes[1][i].feature
                    /\ ledger_writes[2][i].priority = ledger_writes[1][i].priority
                    /\ ledger_writes[2][i].priority = "high"
                          => ledger_writes[2][i].passes = InTrace("verifier_true")
                    /\ ledger_writes[2][i].priority = "medium"
                          => ledger_writes[2][i].passes = TRUE

\* a simulation whose verifier reported false: the high-priority records do
\* not pass, the medium-priority ones do
C11_Witness ==
    /\ Called
    /\ InTrace("emit_templates_ok")
    /\ InTrace("verifier_false")
    /\ feature_list # None
    /\ \E i, j \in DOMAIN feature_list[1] :
          /\ feature_list[1][i].priority = "high" /\ ~feature_list[1][i].passes
          /\ feature_list[1][j].priority = "medium" /\ feature_list[1][j].passes

\* C12: every call that returns a project directory has run the Program
\* Verifier and rewritten the ledger from its result.  (Fails on every live
\* path: a live session that succeeds returns without verifier and ledger
\* update in all four classes.)
C12_AllPathsVerify ==
    (Called /\ gen_result[1].project_dir # None) =>
        /\ VerifierRan
        /\ Len(ledger_writes) = 2

\* C13: a Claude generator with the credential whose live session fails runs
\* the simulation when simulation is enabled and returns the simulation's
\* result; with simulation disabled it reports failure and emits no template.
\* (Fails for "claude_standalone", whose run_with_claude_sdk returns False
\* instead of raising.)
C13_LiveFailureFallsBack ==
    (Called /\ generator[1].variant \in ClaudeVariants
        /\ generator[1].use_claude_sdk /\ LiveFailed) =>
        IF generator[1].enable_simulation
        THEN /\ Simulated
             /\ InTrace("emit_templates_ok") =>
                   gen_result = Some([project_dir |-> Some(ProjectDir),
                                      success |-> InTrace("verifier_true")])
        ELSE /\ ~Simulated
             /\ ~gen_result[1].success

\* C14: when the generated program times out, the verifier reports false,
\* no high-priority record passes, the ledger is rewritten, the final commit
\* is made and generate_code returns the project directory with success false.
\* (Fails for the two adapters of the unified module, whose verifiers return
\* True from `except Exception`.)
C14_ExecutionTimeout ==
    (Called /\ InTrace("run_program_timeout")) =>
        /\ InTrace("verifier_false")
        /\ Len(ledger_writes) = 2
        /\ feature_list = Some(ledger_writes[2])
        /\ \A i \in DOMAIN feature_list[1] :
              feature_list[1][i].priority = "high" => ~feature_list[1][i].passes
        /\ InTrace("final_commit")
        /\ gen_result = Some([project_dir |-> Some(ProjectDir), success |-> FALSE])

\* C15: a call of an OpenCode generator that created a session ends with an
\* attempt to delete it, and the call returns what run_autonomous_generation
\* was returning or raising when it reached the cleanup, whatever the delete
\* did.
C15_SessionCleanup ==
    (Called /\ generator[1].variant \in OpenCodeVariants) =>
        /\ InTrace("session_created") =>
              /\ gen_trace[Len(gen_trace)] \in {"session_delete_ok", "session_delete_error"}
              /\ \A i \in Positions("session_created") : i < Len(gen_trace)
        /\ Cardinality(Positions("returning_true") \cup Positions("returning_false")
                          \cup Positions("raising")) = 1
        /\ InTrace("returning_true") =>
              gen_result = Some([project_dir |-> Some(ProjectDir), success |-> TRUE])
        /\ InTrace("returning_false") =>
              gen_result = Some([project_dir |-> Some(ProjectDir), success |-> FALSE])
        /\ InTrace("raising") =>
              gen_result = Some([project_dir |-> None, success |-> FALSE])

\* the live session was created and succeeded, and the delete raised
C15_Witness ==
    /\ Called
    /\ generator[1].variant \in OpenCodeVariants
    /\ InTrace("session_created")
    /\ InTrace("live_ok")
    /\ InTrace("returning_true")
    /\ gen_trace[Len(gen_trace)] = "session_delete_error"
    /\ gen_result = Some([project_dir |-> Some(ProjectDir), success |-> TRUE])

\* C23: should_trigger_switch answers with the first of its four conditions
\* that holds, in the order API unavailable, consecutive failures, error
\* rate (only for more than 5 tasks), health score below 0.3, and answers
\* (False, "") exactly when none holds.
C23_PrioritisedDecision ==
    (pc = "detector" /\ det_out # None) =>
        LET m == det_in[1].metrics
            fd == det_in[1].detector
            t == det_out[1].trigger
            c1 == ~m.api_available
            c2 == m.consecutive_failures >= fd.consecutive_failure_threshold
            c3 == /\ m.total_tasks > 5
                  /\ fd.error_rate_threshold.den * m.error_count
                        > fd.error_rate_threshold.num * m.total_tasks
            c4 == 10 * det_out[1].health_score.num < 3 * det_out[1].health_score.den
            first == IF c1 THEN "API unavailable"
                     ELSE IF c2 THEN "Consecutive failures exceeded threshold"
                     ELSE IF c3 THEN "Error rate too high"
                     ELSE IF c4 THEN "Health score too low"
                     ELSE ""
        IN  /\ t[1] = (c1 \/ c2 \/ c3 \/ c4)
            /\ t[2].text = first
            /\ (t = <<FALSE, EmptyReason>>) <=> ~(c1 \/ c2 \/ c3 \/ c4)

\* the error rate and the health score both call for a switch and the error
\* rate, the earlier test, gives the reason
C23_Witness ==
    /\ pc = "detector"
    /\ det_out # None
    /\ det_in[1].metrics.api_available
    /\ det_in[1].metrics.consecutive_failures
          < det_in[1].detector.consecutive_failure_threshold
    /\ det_in[1].metrics.total_tasks > 5
    /\ 10 * det_out[1].health_score.num < 3 * det_out[1].health_score.den
    /\ det_out[1].trigger = <<TRUE, Reason("Error rate too high",
                                            Round2(det_in[1].metrics.error_count,
                                                   det_in[1].metrics.total_tasks))>>

\* the attempts whose points are in the window of f now
InWindow(f) == LastN(attempts_log[f], Len(metrics_history[f]))

\* C24: when the last three update_metrics calls of a framework were
\* failures, whatever preceded them, should_trigger_switch with the default
\* thresholds returns true on the framework's current metrics.
C24_ThreeFailuresTrigger ==
    \A f \in FrameworkSet :
        LET log == attempts_log[f]
        IN  (/\ Len(log) >= 3
             /\ \A i \in (Len(log) - 2)..Len(log) : ~log[i].success)
            => should_trigger_switch(get_current_metrics(metrics_history, f)[1],
                                     default_detector)[1]

\* C25: with more than one point in the window, the last point's
\* tasks_completed is the number of successful attempts in the window,
\* total_tasks is the window length and success_rate is their quotient.
C25_RollingAggregates ==
    \A f \in FrameworkSet :
        Len(metrics_history[f]) > 1 =>
            LET m == Last(metrics_history[f])
                w == InWindow(f)
            IN  /\ m.tasks_completed
                      = Cardinality({i \in DOMAIN w : w[i].success})
                /\ m.total_tasks = Len(metrics_history[f])
                /\ m.success_rate.num * m.total_tasks
                      = m.tasks_completed * m.success_rate.den

\* C28: the last point's error_count is the number of attempts in the window
\* that reported an error, so it is at most total_tasks.
C28_ErrorRateFraction ==
    \A f \in FrameworkSet :
        metrics_history[f] # <<>> =>
            LET m == Last(metrics_history[f])
                w == InWindow(f)
            IN  /\ m.error_count <= m.total_tasks
                /\ m.error_count
                      = Cardinality({i \in DOMAIN w : Truthy(w[i].error)})

TargetUnhealthy == <<FALSE, "", Reason("Target framework unhealthy", NoArg)>>

\* the last recorded switch is less than 300 seconds old
RecentSwitch ==
    /\ switching_history # <<>>
    /\ now - Last(switching_history).timestamp < 300

\* C26: outside the hysteresis window, should_switch_framework refuses when
\* the Failure Detector does not trigger; when it triggers, the engine
\* refuses with "Target framework unhealthy" if fallback metrics exist with
\* health_score < 0.5, and otherwise approves with the other framework as
\* target ("opencode" for "claude", "claude" for anything else) and the
\* detector's reason.
C26_EngineApproval ==
    (pc = "engine" /\ det_out # None /\ ~RecentSwitch) =>
        LET i == det_in[1]
            d == det_out[1].decision
            trig == should_trigger_switch(i.metrics, i.detector)
            unhealthy == /\ i.fallback # None
                         /\ 2 * health_num(i.fallback[1]) < health_den(i.fallback[1])
        IN  IF ~trig[1] THEN ~d[1]
            ELSE IF unhealthy THEN d = TargetUnhealthy
            ELSE d = <<TRUE,
                       IF i.current = "claude" THEN "opencode" ELSE "claude",
                       trig[2]>>

\* 300 seconds after the last switch the detector triggers on the current
\* metrics and the fallback's health is below 0.5 without being 0
C26_Witness ==
    /\ pc = "engine"
    /\ det_out # None
    /\ switching_history # <<>>
    /\ ~RecentSwitch
    /\ should_trigger_switch(det_in[1].metrics, det_in[1].detector)[1]
    /\ det_in[1].fallback # None
    /\ health_num(det_in[1].fallback[1]) > 0
    /\ det_out[1].decision = TargetUnhealthy

\* C29: once a call has started on an orchestrator with at least one
\* adapter, current_framework names an adapter of `generators`; a call that
\* returns success leaves current_framework at the framework that succeeded,
\* the last element of frameworks_tried; and inside the attempt loop
\* current_framework changes only together with the recording of a
\* SwitchingEvent from its previous value to its new value.
C29_CurrentFrameworkConsistent ==
    /\ [](calls > 0 => current_framework \in generators)
    /\ []((pc = "returned" /\ result # None /\ result[1].success)
            => current_framework = Last(result[1].frameworks_tried))
    /\ [][(pc = "loop" /\ current_framework' # current_framework)
            => /\ Len(switching_history') = Len(switching_history) + 1
               /\ Last(switching_history').from_framework = current_framework
               /\ Last(switching_history').to_framework = current_framework'
               /\ Last(switching_history').from_framework
                     # Last(switching_history').to_framework]_vars

\* a call returned success on the framework it switched to
C29_Witness ==
    /\ pc = "returned"
    /\ result # None
    /\ result[1].success
    /\ Len(result[1].frameworks_tried) = 2
    /\ switching_history # <<>>
    /\ Last(switching_history).to_framework = current_framework
    /\ Last(switching_history).from_framework = result[1].frameworks_tried[1]
    /\ current_framework = result[1].frameworks_tried[2]

\* some probe of the call reported available
RecoveryObserved == \E i \in DOMAIN exec_log : exec_log[i].available

\* C22: wait_for_api_recovery terminates whatever the probes report; a probe
\* that reports available ends the call at once with True; False is returned
\* only when max_wait has elapsed since the start and no probe reported
\* available; so the call returns True if and only if a probe observed the
\* recovery.
C22_WaitTerminates ==
    /\ <>(pc = "wait_done")
    /\ [](RecoveryObserved =>
            /\ Last(exec_log).available
            /\ \A i \in 1..(Len(exec_log) - 1) : ~exec_log[i].available
            /\ pc = "wait_done"
            /\ result = Some(TRUE))
    /\ [](pc = "wait_done" =>
            /\ result \in {Some(TRUE), Some(FALSE)}
            /\ result = Some(TRUE) <=> RecoveryObserved
            /\ result = Some(FALSE) =>
                  now - det_in[1].start_time >= det_in[1].max_wait)
    /\ [](pc # "wait_done" => result = None)

\* the call polled more than once and gave up after the deadline
C22_Witness ==
    /\ pc = "wait_done"
    /\ result = Some(FALSE)
    /\ Len(exec_log) >= 2
    /\ det_in[1].max_wait > 0

\* C30: on a reused unified OpenCode adapter, a call deletes only the
\* session that the same call created, and no session id is given to
\* session.delete() in two calls.
C30_NoStaleCleanup ==
    (pc = "generator" /\ generator[1].variant = "opencode_unified") =>
        /\ \A i \in DOMAIN exec_log :
              exec_log[i].deleted # None
                 => exec_log[i].deleted = exec_log[i].created
        /\ \A i, j \in DOMAIN exec_log :
              (i < j /\ exec_log[i].deleted # None)
                 => exec_log[i].deleted # exec_log[j].deleted

\* C21: the three parse_task_description functions return the same language,
\* complexity, feature tags and estimated_files for every task description.
C21_ClassifiersAgree ==
    (pc = "parser" /\ det_out # None) =>
        /\ det_out[1].claude = det_out[1].opencode
        /\ det_out[1].opencode = det_out[1].unified

\* C27: in every input mode and for every combination of credentials and
\* --enable-simulation, no exception leaves main of a command-line front
\* end; a failure of generator construction, of reading the instruction file
\* or of the generation makes main print a message and return 1.
C27_NoErrorEscapes ==
    (pc = "cli" /\ det_out # None) =>
        LET inv == det_in[1]
            out == det_out[1]
            construction_fails ==
                IF inv.cli = "claude"
                THEN ~inv.api_key /\ (inv.mode = "file" \/ ~inv.enable_simulation)
                ELSE inv.adapters = "none"
            file_fails == inv.mode = "file" /\ inv.file # "ok"
            generation_fails == inv.generation # "success"
        IN  /\ out.escaped = None
            /\ (construction_fails \/ file_fails \/ generation_fails)
                  => out.exit = Some(1) /\ out.message # ""

====
